---- MODULE Spec2Model ----
(***************************************************************************)
(* Verification model of the moretranz-halftone API server.                *)
(*                                                                         *)
(* src/server.js holds three successive versions of the server:            *)
(*   lines    1- 550  alpha-crop renderer, handler without admission gate  *)
(*   lines  552-1087  dtfSafe renderer, handler guarded by ACTIVE_JOBS     *)
(*   lines 1089-1608  direct raster renderer with result upscaling         *)
(* Definitions of the first version carry the suffix _crop, those of the   *)
(* third the suffix _raster; the second version keeps the source's names.  *)
(***************************************************************************)
EXTENDS Integers, Sequences, FiniteSets, TLC

VARIABLES
    ACTIVE_JOBS,   \* server.js:680, module-level admission counter
    pc,            \* per request: await point the handler is suspended at
    req,           \* per request: the parsed body and the stored object
    resp,          \* per request: sequence of HTTP responses sent
    work,          \* per request: set of external operations started
    incs,          \* per request: number of ACTIVE_JOBS++ executed
    decs,          \* per request: number of ACTIVE_JOBS-- executed
    caught,        \* per request: exceptions that reached the handler's catch
    rver,          \* one call of makeColorHalftonePng: which renderer runs
    rin,           \* its arguments: decoded input raster and parameters
    rpc,           \* its position: "off", "start", "cells", "encode", "done"
    rcell,         \* index of the next grid cell of the sampling loop
    shapes,        \* shapes emitted so far (the array the SVG is built from)
    divs,          \* divisors of the colour averages computed so far
    rout           \* what the call returned or threw

jobVars == <<ACTIVE_JOBS, pc, req, resp, work, incs, decs, caught>>
renderVars == <<rver, rin, rpc, rcell, shapes, divs, rout>>
vars == <<ACTIVE_JOBS, pc, req, resp, work, incs, decs, caught,
          rver, rin, rpc, rcell, shapes, divs, rout>>

----------------------------------------------------------------------------
(* Bounds of the model *)

NumRequests == 2

Requests == 1..NumRequests

----------------------------------------------------------------------------
(* Configuration, server.js:587-602 (defaults) *)

MAX_UPLOAD_BYTES == 26214400
MAX_IMAGE_PIXELS == 50000000
HARD_MAX_WIDTH == 3600
SOFT_MAX_WIDTH == 3200
MIN_CELL == 8
MAX_CELL == 30
MAX_CONCURRENT_JOBS == 1
MAX_CELLS_ESTIMATE == 700000

----------------------------------------------------------------------------
(* Helpers *)

Min(a, b) == IF a < b THEN a ELSE b
Max(a, b) == IF a > b THEN a ELSE b

\* Mutant of clamp: the upper limit is not applied.
clampNoCeiling(n, min, max) == Max(min, n)

\* server.js:604  Math.max(min, Math.min(max, n))
clamp(n, min, max) == Max(min, Min(max, n))

\* Math.ceil(a / b) for a >= 0, b > 0
CeilDiv(a, b) == (a + b - 1) \div b

\* Math.round(a / b) for a >= 0, b > 0 (round half up)
RoundDiv(a, b) == (2 * a + b) \div (2 * b)

\* server.js:612  errJson(code, message, details); the message text is kept
\* only where it carries data: info is the set of <<field, value>> pairs
\* that the message or the details object expose to the caller.
errJson(status, code, info) == [status |-> status, code |-> code, info |-> info]

----------------------------------------------------------------------------
(* Request inputs *)

\* cellSize values a client sends: below the schema minimum and at it
CellSizes == {MIN_CELL - 1, MIN_CELL}

\* maxWidth values a client sends (the schema accepts 256..4000)
MaxWidths == {4000}

\* stored objects: byte length and decoded dimensions; the objects of every
\* byte length are 100 rows high, the higher ones hold 1000 bytes
ObjectBytes == {0, 1000, MAX_UPLOAD_BYTES + 1}
ObjectWidths == {3600}
ObjectHeights == {100, 13800, 13900}

Bodies == [cellSize : CellSizes, maxWidth : MaxWidths]
Objects ==
    [bytes : ObjectBytes, inW : ObjectWidths, inH : {100}]
    \cup [bytes : {1000}, inW : ObjectWidths, inH : ObjectHeights]

NoReq == [cellSize |-> 0, maxWidth |-> 0, bytes |-> 0, inW |-> 0, inH |-> 0]

\* Mutant of ProcessRequest: the schema bounds on cellSize are dropped and the
\* renderer's clamp is relied on instead.
ProcessRequestNoCellBounds(body) ==
    /\ body.maxWidth >= 256 /\ body.maxWidth <= 4000

\* server.js:912-926  ProcessRequest (zod schema): cellSize and maxWidth ranges
ProcessRequest(body) ==
    /\ body.cellSize >= MIN_CELL /\ body.cellSize <= MAX_CELL
    /\ body.maxWidth >= 256 /\ body.maxWidth <= 4000

----------------------------------------------------------------------------
(* makeColorHalftonePng, server.js:698-861: decode, resize and cell grid *)

\* sharp resize({ width: targetW, withoutEnlargement: true }): output width
ResizeW(inW, targetW) == IF targetW >= inW THEN inW ELSE targetW

\* same call: output height keeps the aspect ratio (rounded, at least 1)
ResizeH(inW, inH, targetW) ==
    IF targetW >= inW THEN inH ELSE Max(1, RoundDiv(inH * targetW, inW))

\* server.js:704-730: everything the renderer does before it reads pixels.
\* Result: thrown error or the grid the sampler will walk.
RenderPlan(inW, inH, maxWidth, cellSize) ==
    LET pixels == inW * inH
        targetW == clamp(Min(inW, maxWidth), 256, HARD_MAX_WIDTH)
        w == ResizeW(inW, targetW)
        h == ResizeH(inW, inH, targetW)
        cs == clamp(cellSize, MIN_CELL, MAX_CELL)
        cols == CeilDiv(w, cs)
        rows == CeilDiv(h, cs)
        cellCount == cols * rows
    IN  IF pixels > MAX_IMAGE_PIXELS
        THEN [throw |-> "Image too large", w |-> 0, h |-> 0, cs |-> 0,
              cols |-> 0, rows |-> 0, cellCount |-> 0]
        ELSE IF cellCount > MAX_CELLS_ESTIMATE
        THEN [throw |-> "Settings too heavy", w |-> w, h |-> h, cs |-> cs,
              cols |-> cols, rows |-> rows, cellCount |-> cellCount]
        ELSE [throw |-> "", w |-> w, h |-> h, cs |-> cs,
              cols |-> cols, rows |-> rows, cellCount |-> cellCount]

----------------------------------------------------------------------------
(* POST /v1/halftone/process, server.js:928-1081 *)

InFlight == {"head", "get", "stream", "meta", "render", "put", "sign"}

\* server.js:681-685
tooBusyResponse == errJson(429, "BUSY", {})

\* Mutant of GateClosed: off by one, a request is admitted at the ceiling.
GateClosedOffByOne == ACTIVE_JOBS > MAX_CONCURRENT_JOBS

\* server.js:936  the admission test
GateClosed == ACTIVE_JOBS >= MAX_CONCURRENT_JOBS

\* server.js:942
maxWidthClamped(body) == clamp(body.maxWidth, 256, HARD_MAX_WIDTH)

\* server.js:1075-1077  catch (e): the same opaque answer for every exception
catchResponse(e) == errJson(500, "INTERNAL", {<<"message", "Failed to process halftone">>})

\* Mutant of Exit: the decrement sits at the end of the try block instead of
\* in a finally clause, so only the success path releases the slot.
ExitReleaseOnSuccessOnly(r, response) ==
    /\ resp' = [resp EXCEPT ![r] = Append(@, response)]
    /\ IF response.status = 200
       THEN /\ ACTIVE_JOBS' = ACTIVE_JOBS - 1
            /\ decs' = [decs EXCEPT ![r] = @ + 1]
       ELSE UNCHANGED <<ACTIVE_JOBS, decs>>
    /\ pc' = [pc EXCEPT ![r] = "done"]
    /\ UNCHANGED <<req, work, incs, caught>>
    /\ UNCHANGED renderVars

\* A return or throw inside the try block: the response is sent once and the
\* finally clause (server.js:1078-1080) runs before the handler ends.
Exit(r, response) ==
    /\ resp' = [resp EXCEPT ![r] = Append(@, response)]
    /\ ACTIVE_JOBS' = ACTIVE_JOBS - 1
    /\ decs' = [decs EXCEPT ![r] = @ + 1]
    /\ pc' = [pc EXCEPT ![r] = "done"]
    /\ UNCHANGED <<req, work, incs, caught>>
    /\ UNCHANGED renderVars

\* Mutant of Throw: the try statement has no finally clause, the catch clause
\* answers and the slot is kept.
ThrowKeepsSlot(r, e) ==
    /\ caught' = [caught EXCEPT ![r] = Append(@, e)]
    /\ resp' = [resp EXCEPT ![r] = Append(@, catchResponse(e))]
    /\ pc' = [pc EXCEPT ![r] = "done"]
    /\ UNCHANGED <<ACTIVE_JOBS, req, work, incs, decs>>
    /\ UNCHANGED renderVars

\* An exception reaches the catch clause (server.js:1075-1077): the opaque
\* answer is sent and the finally clause runs.
Throw(r, e) ==
    /\ caught' = [caught EXCEPT ![r] = Append(@, e)]
    /\ resp' = [resp EXCEPT ![r] = Append(@, catchResponse(e))]
    /\ ACTIVE_JOBS' = ACTIVE_JOBS - 1
    /\ decs' = [decs EXCEPT ![r] = @ + 1]
    /\ pc' = [pc EXCEPT ![r] = "done"]
    /\ UNCHANGED <<req, work, incs>>
    /\ UNCHANGED renderVars

\* The handler suspends at the next await.
Await(r, next, op) ==
    /\ pc' = [pc EXCEPT ![r] = next]
    /\ work' = [work EXCEPT ![r] = @ \cup {op}]
    /\ UNCHANGED <<ACTIVE_JOBS, req, resp, incs, decs, caught>>
    /\ UNCHANGED renderVars

\* Mutant of Arrive: the counter is incremented before the admission test
\* and not restored when the request is turned away.
ArriveCountsFirst(r) ==
    /\ pc[r] = "idle"
    /\ UNCHANGED renderVars
    /\ \E body \in Bodies, obj \in Objects :
         /\ req' = [req EXCEPT ![r] = [cellSize |-> body.cellSize, maxWidth |-> body.maxWidth,
                                      bytes |-> obj.bytes, inW |-> obj.inW, inH |-> obj.inH]]
         /\ IF ~ProcessRequest(body)
            THEN /\ resp' = [resp EXCEPT ![r] = Append(@, errJson(400, "BAD_REQUEST", {}))]
                 /\ pc' = [pc EXCEPT ![r] = "done"]
                 /\ UNCHANGED <<ACTIVE_JOBS, work, incs, decs, caught>>
            ELSE IF GateClosed
            THEN /\ resp' = [resp EXCEPT ![r] = Append(@, tooBusyResponse)]
                 /\ pc' = [pc EXCEPT ![r] = "done"]
                 /\ ACTIVE_JOBS' = ACTIVE_JOBS + 1
                 /\ UNCHANGED <<work, incs, decs, caught>>
            ELSE /\ ACTIVE_JOBS' = ACTIVE_JOBS + 1
                 /\ incs' = [incs EXCEPT ![r] = @ + 1]
                 /\ pc' = [pc EXCEPT ![r] = "head"]
                 /\ work' = [work EXCEPT ![r] = @ \cup {"HeadObject"}]
                 /\ UNCHANGED <<resp, decs, caught>>

\* Mutant of Arrive: the admission test comes before the validation of the
\* body.
ArriveGateFirst(r) ==
    /\ pc[r] = "idle"
    /\ UNCHANGED renderVars
    /\ \E body \in Bodies, obj \in Objects :
         /\ req' = [req EXCEPT ![r] = [cellSize |-> body.cellSize, maxWidth |-> body.maxWidth,
                                      bytes |-> obj.bytes, inW |-> obj.inW, inH |-> obj.inH]]
         /\ IF GateClosed
            THEN /\ resp' = [resp EXCEPT ![r] = Append(@, tooBusyResponse)]
                 /\ pc' = [pc EXCEPT ![r] = "done"]
                 /\ UNCHANGED <<ACTIVE_JOBS, work, incs, decs, caught>>
            ELSE IF ~ProcessRequest(body)
            THEN /\ resp' = [resp EXCEPT ![r] = Append(@, errJson(400, "BAD_REQUEST", {}))]
                 /\ pc' = [pc EXCEPT ![r] = "done"]
                 /\ UNCHANGED <<ACTIVE_JOBS, work, incs, decs, caught>>
            ELSE /\ ACTIVE_JOBS' = ACTIVE_JOBS + 1
                 /\ incs' = [incs EXCEPT ![r] = @ + 1]
                 /\ pc' = [pc EXCEPT ![r] = "head"]
                 /\ work' = [work EXCEPT ![r] = @ \cup {"HeadObject"}]
                 /\ UNCHANGED <<resp, decs, caught>>

\* server.js:928-944 and 967-971: a request arrives, is validated, passes or
\* fails the admission gate and runs up to the HeadObject await.
Arrive(r) ==
    /\ pc[r] = "idle"
    /\ UNCHANGED renderVars
    /\ \E body \in Bodies, obj \in Objects :
         /\ req' = [req EXCEPT ![r] = [cellSize |-> body.cellSize, maxWidth |-> body.maxWidth,
                                      bytes |-> obj.bytes, inW |-> obj.inW, inH |-> obj.inH]]
         /\ IF ~ProcessRequest(body)
            THEN /\ resp' = [resp EXCEPT ![r] = Append(@, errJson(400, "BAD_REQUEST", {}))]
                 /\ pc' = [pc EXCEPT ![r] = "done"]
                 /\ UNCHANGED <<ACTIVE_JOBS, work, incs, decs, caught>>
            ELSE IF GateClosed
            THEN /\ resp' = [resp EXCEPT ![r] = Append(@, tooBusyResponse)]
                 /\ pc' = [pc EXCEPT ![r] = "done"]
                 /\ UNCHANGED <<ACTIVE_JOBS, work, incs, decs, caught>>
            ELSE /\ ACTIVE_JOBS' = ACTIVE_JOBS + 1
                 /\ incs' = [incs EXCEPT ![r] = @ + 1]
                 /\ pc' = [pc EXCEPT ![r] = "head"]
                 /\ work' = [work EXCEPT ![r] = @ \cup {"HeadObject"}]
                 /\ UNCHANGED <<resp, decs, caught>>

\* server.js:977-981: the rejection of HeadObject is caught on the spot and
\* logged as a warning; the handler goes on to GetObject.
HeadObjectWarning(r) ==
    /\ pc' = [pc EXCEPT ![r] = "get"]
    /\ work' = [work EXCEPT ![r] = @ \cup {"HeadObject warning", "GetObject"}]
    /\ UNCHANGED <<ACTIVE_JOBS, req, resp, incs, decs, caught>>
    /\ UNCHANGED renderVars

\* Mutant of HeadDone: the return in front of the TOO_LARGE answer is missing,
\* the handler sends it and goes on to GetObject.
HeadDoneNoReturn(r) ==
    /\ pc[r] = "head"
    /\ \E outcome \in {"reject", "resolve", "nolength"} :
         IF outcome = "resolve" /\ req[r].bytes > MAX_UPLOAD_BYTES
         THEN /\ resp' = [resp EXCEPT ![r] =
                            Append(@, errJson(413, "TOO_LARGE", {<<"limit", MAX_UPLOAD_BYTES>>}))]
              /\ pc' = [pc EXCEPT ![r] = "get"]
              /\ work' = [work EXCEPT ![r] = @ \cup {"GetObject"}]
              /\ UNCHANGED <<ACTIVE_JOBS, req, incs, decs, caught>>
              /\ UNCHANGED renderVars
         ELSE IF outcome = "reject"
         THEN HeadObjectWarning(r)
         ELSE Await(r, "get", "GetObject")

\* server.js:967-979: HeadObject resolves or rejects. A rejection is logged
\* and ignored; a ContentLength above the limit ends the request with 413.
HeadDone(r) ==
    /\ pc[r] = "head"
    /\ \E outcome \in {"reject", "resolve", "nolength"} :
         IF outcome = "resolve" /\ req[r].bytes > MAX_UPLOAD_BYTES
         THEN Exit(r, errJson(413, "TOO_LARGE", {<<"limit", MAX_UPLOAD_BYTES>>}))
         ELSE IF outcome = "reject"
         THEN HeadObjectWarning(r)
         ELSE Await(r, "get", "GetObject")

\* server.js:981-985: GetObject resolves or rejects.
GetDone(r) ==
    /\ pc[r] = "get"
    /\ \E outcome \in {"reject", "nobody", "resolve"} :
         CASE outcome = "reject" -> Throw(r, "GetObject failed")
           [] outcome = "nobody" -> Exit(r, errJson(404, "NOT_FOUND", {}))
           [] OTHER -> Await(r, "stream", "streamToBuffer")

\* Mutant of StreamDone: the length of the downloaded buffer is not compared
\* with the limit, the handler relies on HeadObject.
StreamDoneNoLimit(r) ==
    /\ pc[r] = "stream"
    /\ \E outcome \in {"reject", "resolve"} :
         IF outcome = "reject"
         THEN Throw(r, "stream failed")
         ELSE IF req[r].bytes <= 0
         THEN Exit(r, errJson(400, "BAD_IMAGE", {}))
         ELSE Await(r, "meta", "metadata")

\* server.js:985-997: the body stream is drained; size checks on the buffer.
StreamDone(r) ==
    /\ pc[r] = "stream"
    /\ \E outcome \in {"reject", "resolve"} :
         IF outcome = "reject"
         THEN Throw(r, "stream failed")
         ELSE IF req[r].bytes <= 0
         THEN Exit(r, errJson(400, "BAD_IMAGE", {}))
         ELSE IF req[r].bytes > MAX_UPLOAD_BYTES
         THEN Exit(r, errJson(413, "TOO_LARGE", {<<"limit", MAX_UPLOAD_BYTES>>}))
         ELSE Await(r, "meta", "metadata")

\* server.js:995-1024: sharp metadata resolves or rejects; format, dimension
\* and pixel-count checks; then makeColorHalftonePng is called.
MetaDone(r) ==
    /\ pc[r] = "meta"
    /\ \E outcome \in {"reject", "badformat", "nodims", "resolve"} :
         LET totalPixels == req[r].inW * req[r].inH IN
         IF outcome = "reject"
         THEN Exit(r, errJson(400, "BAD_IMAGE", {}))
         ELSE IF outcome = "badformat"
         THEN Exit(r, errJson(400, "BAD_IMAGE", {<<"format", 0>>}))
         ELSE IF outcome = "nodims"
         THEN Exit(r, errJson(400, "BAD_IMAGE", {}))
         ELSE IF totalPixels > MAX_IMAGE_PIXELS
         THEN Exit(r, errJson(413, "TOO_LARGE",
                      {<<"pixels", totalPixels>>, <<"width", req[r].inW>>,
                       <<"height", req[r].inH>>, <<"maxPixels", MAX_IMAGE_PIXELS>>}))
         ELSE Await(r, "render", "makeColorHalftonePng")

\* The plan of the render this request asks for (server.js:1024-1033)
PlanOf(q) == RenderPlan(q.inW, q.inH, maxWidthClamped(q), q.cellSize)

\* server.js:1024-1045: makeColorHalftonePng resolves or rejects; a rejection
\* (too many cells, or any failure of the image library) reaches the catch.
RenderDone(r) ==
    /\ pc[r] = "render"
    /\ \E outcome \in {"reject", "resolve"} :
         IF outcome = "reject"
         THEN Throw(r, "render failed")
         ELSE IF PlanOf(req[r]).throw # ""
         THEN Throw(r, PlanOf(req[r]).throw)
         ELSE Await(r, "put", "PutObject")

\* server.js:1038-1051: the output upload resolves or rejects.
PutDone(r) ==
    /\ pc[r] = "put"
    /\ \E outcome \in {"reject", "resolve"} :
         IF outcome = "reject"
         THEN Throw(r, "PutObject failed")
         ELSE Await(r, "sign", "getSignedUrl")

\* server.js:1047-1074: the download URL is signed; success response.
SignDone(r) ==
    /\ pc[r] = "sign"
    /\ \E outcome \in {"reject", "resolve"} :
         IF outcome = "reject"
         THEN Throw(r, "getSignedUrl failed")
         ELSE Exit(r, errJson(200, "ok",
                      {<<"maxWidth", maxWidthClamped(req[r])>>,
                       <<"cellCount", PlanOf(req[r]).cellCount>>,
                       <<"outWidth", PlanOf(req[r]).w>>,
                       <<"outHeight", PlanOf(req[r]).h>>}))

\* The server after start-up: no request has arrived.
JobsIdle ==
    /\ ACTIVE_JOBS = 0
    /\ pc = [r \in Requests |-> "idle"]
    /\ req = [r \in Requests |-> NoReq]
    /\ resp = [r \in Requests |-> <<>>]
    /\ work = [r \in Requests |-> {}]
    /\ incs = [r \in Requests |-> 0]
    /\ decs = [r \in Requests |-> 0]
    /\ caught = [r \in Requests |-> <<>>]

\* No call of makeColorHalftonePng is being followed pixel by pixel.
RenderOff ==
    /\ rver = "dtf"
    /\ rin = <<>>
    /\ rpc = "off"
    /\ rcell = 0
    /\ shapes = <<>>
    /\ divs = <<>>
    /\ rout = <<>>

Init == JobsIdle /\ RenderOff

Next ==
    \E r \in Requests :
        \/ Arrive(r)
        \/ HeadDone(r)
        \/ GetDone(r)
        \/ StreamDone(r)
        \/ MetaDone(r)
        \/ RenderDone(r)
        \/ PutDone(r)
        \/ SignDone(r)

Spec == Init /\ [][Next]_vars

----------------------------------------------------------------------------
(* Rasters and real numbers *)

\* JavaScript numbers with a fractional part are kept in fixed point: One
\* units make 1.0 and every product is rounded down to a unit.
One == 100 * 100

\* Parameters with two decimals (dotGain, minDot, minCoverage) are carried in
\* hundredths; Hundredths(n) is n/100 in fixed point.
Hundredths(n) == n * (One \div 100)

\* fixed-point product of two fixed-point numbers
Mul(a, b) == (a * b) \div One

\* sum of a sequence of integers
Sum(seq) ==
    LET RECURSIVE S(_, _)
        S(lo, hi) == IF lo > hi THEN 0
                     ELSE IF lo = hi THEN seq[lo]
                     ELSE LET mid == (lo + hi) \div 2
                          IN  S(lo, mid) + S(mid + 1, hi)
    IN  S(1, Len(seq))

\* A raster is [w, h, px]: px is the row-major sequence of <<r, g, b, a>>
\* samples, as in the buffer of sharp's raw().toBuffer().
PixelAt(img, x, y) == img.px[y * img.w + x + 1]

\* server.js:630-633  luminance255, times 10000 (an integer)
luminance255(r, g, b) == 2126 * r + 7152 * g + 722 * b

\* Mutant of Darkness: the luminance is not inverted, dark ink counts as light.
DarknessNotInverted(r, g, b) == luminance255(r, g, b) \div 255

\* server.js:802  darkness = 1 - lum / 255, in fixed point
Darkness(r, g, b) == One - (luminance255(r, g, b) \div 255)

----------------------------------------------------------------------------
(* makeColorHalftonePng, server.js:698-861: the sampling loop *)

\* an iteration that ends in a continue before any average is computed
NoDot == [dot |-> FALSE]

\* an iteration that ends in a continue after the colour was averaged with
\* divisor den
Faint(den) == [dot |-> FALSE, den |-> den]

\* Math.round(sum / den): a JavaScript division by zero does not throw, its
\* result is NaN, for which -1 stands
ColourAvg(sum, den) == IF den = 0 THEN -1 ELSE RoundDiv(sum, den)

\* Mutant of CellBox: the last column and row are not clipped to the raster.
CellBoxUnclipped(plan, idx) ==
    LET row == idx \div plan.cols
        col == idx % plan.cols
        x0 == col * plan.cs
        y0 == row * plan.cs
    IN  [x0 |-> x0, x1 |-> x0 + plan.cs,
         y0 |-> y0, y1 |-> y0 + plan.cs]

\* server.js:743-749: bounds of grid cell number idx (row-major, from 0)
CellBox(plan, idx) ==
    LET row == idx \div plan.cols
        col == idx % plan.cols
        x0 == col * plan.cs
        y0 == row * plan.cs
    IN  [x0 |-> x0, x1 |-> Min(x0 + plan.cs, plan.w),
         y0 |-> y0, y1 |-> Min(y0 + plan.cs, plan.h)]

\* Mutant of CellPixels: the inner loop starts at the left edge of the raster
\* instead of the cell's, so a cell also reads the cells to its left.
CellPixelsFromLeft(img, box) ==
    LET cw == box.x1
        ch == box.y1 - box.y0
    IN  [i \in 1..(cw * ch) |->
            PixelAt(img, (i - 1) % cw, box.y0 + ((i - 1) \div cw))]

\* server.js:758-761: the pixels the two inner loops read, in loop order
CellPixels(img, box) ==
    LET cw == box.x1 - box.x0
        ch == box.y1 - box.y0
    IN  [i \in 1..(cw * ch) |->
            PixelAt(img, box.x0 + ((i - 1) % cw), box.y0 + ((i - 1) \div cw))]

\* server.js:737-740: the clamped look and alpha knobs
minDotClamped(p) == clamp(p.minDot, 0, 95)
dotGainClamped(p) == clamp(p.dotGain, 40, 300)
alphaThr(p) == clamp(p.alphaThreshold, 0, 254)
minCov(p) == clamp(p.minCoverage, 0, 100)

\* server.js:766-782: does the loop add this pixel to the sums?
IsReal(p, px) == IF p.dtfSafe THEN px[4] > alphaThr(p) ELSE TRUE

\* server.js:790-793: the coverage floor
BelowCoverage(p, realCount, count) ==
    p.dtfSafe /\ realCount * 100 < minCov(p) * count

\* Mutant of NoInk: only the empty cell is skipped.
NoInkCountOnly(count, realCount) == count = 0

\* server.js:786: a cell without pixels or without ink is skipped
NoInk(count, realCount) == count = 0 \/ realCount <= 0

\* toFixed(2) of a fixed-point number, in hundredths
ToFixed2(v) == RoundDiv(v, One \div 100)

\* server.js:823-846: horizontal and vertical half extent written into the
\* SVG element, in hundredths of a pixel (rect: size / 2; ellipse: rx, ry;
\* circle: r)
ShapeRx100(dotShape, radius) ==
    IF dotShape = "ellipse" THEN ToFixed2((radius * 120) \div 100) ELSE ToFixed2(radius)
ShapeRy100(dotShape, radius) ==
    IF dotShape = "ellipse" THEN ToFixed2((radius * 85) \div 100) ELSE ToFixed2(radius)

\* server.js:751-848: one iteration of the cell loop. The result is NoDot
\* when the iteration ends in a continue, else the shape that is pushed.
\* radius is in fixed point; rx100 and ry100 are the half extents the SVG
\* text carries; cx2 and cy2 are twice the centre.
CellDot(img, p, plan, idx) ==
    LET box == CellBox(plan, idx)
        pxs == CellPixels(img, box)
        count == Len(pxs)
        real == [i \in 1..count |-> IsReal(p, pxs[i])]
        realCount == Sum([i \in 1..count |-> IF real[i] THEN 1 ELSE 0])
        rSum == Sum([i \in 1..count |-> IF real[i] THEN pxs[i][1] ELSE 0])
        gSum == Sum([i \in 1..count |-> IF real[i] THEN pxs[i][2] ELSE 0])
        bSum == Sum([i \in 1..count |-> IF real[i] THEN pxs[i][3] ELSE 0])
        aSum == Sum([i \in 1..count |-> IF real[i] THEN pxs[i][4] ELSE 0])
    IN  IF NoInk(count, realCount) THEN NoDot
        ELSE IF BelowCoverage(p, realCount, count) THEN NoDot
        ELSE
        LET r == ColourAvg(rSum, realCount)
            g == ColourAvg(gSum, realCount)
            b == ColourAvg(bSum, realCount)
            aAvg == ColourAvg(aSum, realCount)
            darkness == Darkness(r, g, b)
            darknessAdj == clamp((darkness * dotGainClamped(p)) \div 100, 0, One)
            frac == Hundredths(minDotClamped(p))
                    + ((100 - minDotClamped(p)) * darknessAdj) \div 100
            radius == (plan.cs * frac) \div 2
            minRadiusPx == IF p.dtfSafe THEN Hundredths(20) ELSE Hundredths(35)
        IN  IF radius < minRadiusPx THEN Faint(realCount)
            ELSE [dot |-> TRUE, cell |-> idx, shape |-> p.dotShape, den |-> realCount,
                  cx2 |-> box.x0 + box.x1, cy2 |-> box.y0 + box.y1,
                  radius |-> radius,
                  rx100 |-> ShapeRx100(p.dotShape, radius),
                  ry100 |-> ShapeRy100(p.dotShape, radius),
                  fill |-> <<r, g, b>>,
                  opacity |-> IF p.dtfSafe THEN One ELSE RoundDiv(aAvg * One, 255),
                  real |-> realCount, used |-> realCount, count |-> count]

----------------------------------------------------------------------------
(* First version, server.js:1-550: the alpha-crop renderer *)

\* server.js:27-42 (defaults)
MAX_IMAGE_PIXELS_crop == 60000000
MIN_CELL_crop == 6
MAX_CELL_crop == 48
MAX_CELLS_ESTIMATE_crop == 260000
ALPHA_BBOX_THRESHOLD == 8
ALPHA_CROP_PADDING == 2
\* MIN_COVERAGE_TO_DRAW, in hundredths
MIN_COVERAGE_TO_DRAW == 3
\* server.js:223  ALPHA_SAMPLE_CUTOFF = 16 / 255, as an alpha sample
ALPHA_SAMPLE_CUTOFF == 16

SetMin(S) == CHOOSE m \in S : \A n \in S : m <= n
SetMax(S) == CHOOSE m \in S : \A n \in S : m >= n

\* Mutant of findAlphaBBox: a pixel whose alpha equals the threshold counts.
findAlphaBBoxInclusive(img, thr) ==
    LET t == clamp(thr, 0, 255)
        hits == {i \in 1..(img.w * img.h) : img.px[i][4] >= t}
        xs == {(i - 1) % img.w : i \in hits}
        ys == {(i - 1) \div img.w : i \in hits}
    IN  IF hits = {} THEN <<>>
        ELSE [left |-> SetMin(xs), top |-> SetMin(ys),
              right |-> SetMax(xs), bottom |-> SetMax(ys)]

\* server.js:125-145  findAlphaBBox; <<>> stands for null
findAlphaBBox(img, thr) ==
    LET t == clamp(thr, 0, 255)
        hits == {i \in 1..(img.w * img.h) : img.px[i][4] > t}
        xs == {(i - 1) % img.w : i \in hits}
        ys == {(i - 1) \div img.w : i \in hits}
    IN  IF hits = {} THEN <<>>
        ELSE [left |-> SetMin(xs), top |-> SetMin(ys),
              right |-> SetMax(xs), bottom |-> SetMax(ys)]

\* sharp extract({ left, top, width, height })
Extract(img, left, top, width, height) ==
    [w |-> width, h |-> height,
     px |-> [i \in 1..(width * height) |->
               PixelAt(img, left + ((i - 1) % width), top + ((i - 1) \div width))]]

NoPlan(msg) ==
    [throw |-> msg, w |-> 0, h |-> 0, cs |-> 0, cols |-> 0, rows |-> 0, cellCount |-> 0,
     left |-> 0, top |-> 0, cropW |-> 0, cropH |-> 0]

\* server.js:158-209: size check, crop to the bounding box bbox of the ink,
\* resize, grid, for an inW x inH input
CropPlan(inW, inH, bbox, p) ==
    IF inW * inH > MAX_IMAGE_PIXELS_crop THEN NoPlan("Image too large")
        ELSE IF bbox = <<>> THEN NoPlan("fully transparent")
        ELSE
        LET pad == Max(0, ALPHA_CROP_PADDING)
            left == clamp(bbox.left - pad, 0, inW - 1)
            top == clamp(bbox.top - pad, 0, inH - 1)
            right == clamp(bbox.right + pad, 0, inW - 1)
            bottom == clamp(bbox.bottom + pad, 0, inH - 1)
            cropW == right - left + 1
            cropH == bottom - top + 1
            targetW == clamp(Min(cropW, p.maxWidth), 256, HARD_MAX_WIDTH)
            w == ResizeW(cropW, targetW)
            h == ResizeH(cropW, cropH, targetW)
            cs == clamp(p.cellSize, MIN_CELL_crop, MAX_CELL_crop)
            cols == CeilDiv(w, cs)
            rows == CeilDiv(h, cs)
        IN  [throw |-> IF cols * rows > MAX_CELLS_ESTIMATE_crop
                       THEN "Settings too heavy" ELSE "",
             w |-> w, h |-> h, cs |-> cs, cols |-> cols, rows |-> rows,
             cellCount |-> cols * rows,
             left |-> left, top |-> top, cropW |-> cropW, cropH |-> cropH]

\* server.js:158-209: decode, bounding box, crop, resize, grid
RenderPlan_crop(img, p) ==
    CropPlan(img.w, img.h, findAlphaBBox(img, ALPHA_BBOX_THRESHOLD), p)

\* largest k with k * k <= n, for 0 <= n <= One * One
ISqrt(n) ==
    LET RECURSIVE Bisect(_, _)
        Bisect(lo, hi) ==
            IF lo >= hi THEN lo
            ELSE LET mid == (lo + hi + 1) \div 2
                 IN  IF mid * mid <= n THEN Bisect(mid, hi) ELSE Bisect(lo, mid - 1)
    IN  Bisect(0, One)

\* Math.pow(x, e) for fixed-point x in [0, 1] and the exponents 4, 2, 1 and
\* 1/2, given as e = num / den
Pow(x, num, den) ==
    CASE num = 4 /\ den = 1 -> Mul(Mul(x, x), Mul(x, x))
      [] num = 2 /\ den = 1 -> Mul(x, x)
      [] num = 1 /\ den = 1 -> x
      [] num = 1 /\ den = 2 -> ISqrt(x * One)

\* server.js:216  sNorm = clamp((Number(strength) || 100) / 100, 0, 2.5), in
\* hundredths: a strength of 0 is falsy and is replaced by 100
sNorm(strength) == clamp(IF strength = 0 THEN 100 ELSE strength, 0, 250)

\* server.js:217  Math.pow(darkness, curveExp) with curveExp = 1 / max(0.25, sNorm),
\* for sNorm <= 0.25 and sNorm in {0.5, 1, 2}
Curve_crop(darkness, strength) ==
    LET s == Max(25, sNorm(strength))
    IN  CASE s = 25 -> Pow(darkness, 4, 1)
          [] s = 50 -> Pow(darkness, 2, 1)
          [] s = 100 -> Pow(darkness, 1, 1)
          [] s = 200 -> Pow(darkness, 1, 2)

\* server.js:236-313: one iteration of the cell loop of the first version
CellDot_crop(img, p, plan, idx) ==
    LET box == CellBox(plan, idx)
        pxs == CellPixels(img, box)
        totalPx == (box.x1 - box.x0) * (box.y1 - box.y0)
        opaqueCount == Sum([i \in 1..totalPx |->
                              IF pxs[i][4] > ALPHA_BBOX_THRESHOLD THEN 1 ELSE 0])
        used == [i \in 1..totalPx |-> pxs[i][4] > ALPHA_SAMPLE_CUTOFF]
        aSum == Sum([i \in 1..totalPx |-> IF used[i] THEN pxs[i][4] ELSE 0])
        rSum == Sum([i \in 1..totalPx |-> IF used[i] THEN pxs[i][1] * pxs[i][4] ELSE 0])
        gSum == Sum([i \in 1..totalPx |-> IF used[i] THEN pxs[i][2] * pxs[i][4] ELSE 0])
        bSum == Sum([i \in 1..totalPx |-> IF used[i] THEN pxs[i][3] * pxs[i][4] ELSE 0])
    IN  IF totalPx <= 0 THEN NoDot
        ELSE IF opaqueCount * 100 < MIN_COVERAGE_TO_DRAW * totalPx THEN NoDot
        ELSE IF aSum <= 0 THEN NoDot
        ELSE
        LET coverage == clamp((opaqueCount * One) \div totalPx, 0, One)
            r == ColourAvg(rSum, aSum)
            g == ColourAvg(gSum, aSum)
            b == ColourAvg(bSum, aSum)
            darkness == Darkness(r, g, b)
            darknessCurved == clamp(Curve_crop(darkness, p.strength), 0, One)
            combined == clamp(Mul(darknessCurved, Hundredths(60) + Mul(Hundredths(40), coverage)),
                              0, One)
            radiusGain == Hundredths(95) + 85 * sNorm(p.strength)
            alphaGain == clamp(Hundredths(95) + 40 * sNorm(p.strength), 0, Hundredths(160))
            radius == (plan.cs * clamp(Mul(Hundredths(5) + Mul(Hundredths(95), combined),
                                           radiusGain), 0, One)) \div 2
        IN  IF radius < Hundredths(28) THEN Faint(aSum)
            ELSE [dot |-> TRUE, cell |-> idx, shape |-> p.dotShape, den |-> aSum,
                  cx2 |-> box.x0 + box.x1, cy2 |-> box.y0 + box.y1,
                  radius |-> radius,
                  rx100 |-> ShapeRx100(p.dotShape, radius),
                  ry100 |-> ShapeRy100(p.dotShape, radius),
                  fill |-> <<r, g, b>>,
                  opacity |-> clamp(Mul(coverage, alphaGain), 0, One),
                  real |-> opaqueCount,
                  used |-> Sum([i \in 1..totalPx |-> IF used[i] THEN 1 ELSE 0]),
                  count |-> totalPx]

----------------------------------------------------------------------------
(* Third version, server.js:1089-1608: the direct raster renderer *)

\* server.js:1124 and 1128 (defaults)
MAX_IMAGE_PIXELS_raster == 60000000
MAX_MAX_WIDTH == 4000

\* server.js:1227-1262: decode, processing size, resize, grid. procW and
\* procH never exceed the input, so the resize yields exactly them. The call
\* has no cell ceiling.
RenderPlan_raster(img, p) ==
    LET origW == img.w
        origH == img.h
        procW == Min(origW, p.processingMaxWidth)
        procH == Max(1, RoundDiv(origH * procW, origW))
        w == procW
        h == procH
        cs == clamp(p.cellSize, 4, 80)
        cols == CeilDiv(w, cs)
        rows == CeilDiv(h, cs)
    IN  IF origW * origH > MAX_IMAGE_PIXELS_raster THEN NoPlan("Image too large")
        ELSE [throw |-> "", w |-> w, h |-> h, cs |-> cs, cols |-> cols, rows |-> rows,
              cellCount |-> cols * rows,
              left |-> 0, top |-> 0, cropW |-> origW, cropH |-> origH]

\* server.js:1211 and 1329  s = clamp(strength / 100, 0.25, 3.0), in hundredths
sClamped(strength) == clamp(strength, 25, 300)

\* server.js:1210-1213  coverageFromDarkness, for s in {0.5, 1, 2}
coverageFromDarkness(darkness01, strength) ==
    LET s == sClamped(strength)
        light == One - clamp(darkness01, 0, One)
    IN  One - ( CASE s = 50 -> Pow(light, 1, 2)
                  [] s = 100 -> Pow(light, 1, 1)
                  [] s = 200 -> Pow(light, 2, 1) )

\* server.js:1298-1345: sampling and geometry of one grid cell. rx and ry
\* are the half extents that are drawn, in fixed point.
CellDot_raster(img, p, plan, idx) ==
    LET box == CellBox(plan, idx)
        pxs == CellPixels(img, box)
        count == Len(pxs)
        aSum == Sum([i \in 1..count |-> pxs[i][4]])
        rSum == Sum([i \in 1..count |-> pxs[i][1] * pxs[i][4]])
        gSum == Sum([i \in 1..count |-> pxs[i][2] * pxs[i][4]])
        bSum == Sum([i \in 1..count |-> pxs[i][3] * pxs[i][4]])
    IN  IF aSum <= 0 THEN NoDot
        ELSE
        LET r == ColourAvg(rSum, aSum)
            g == ColourAvg(gSum, aSum)
            b == ColourAvg(bSum, aSum)
            a01 == clamp((aSum * One) \div (count * 255), 0, One)
            coverage == coverageFromDarkness(Darkness(r, g, b), p.strength)
            minFrac == clamp(3 * (sClamped(p.strength) - 100), 0, Hundredths(10))
            frac == clamp(minFrac + Mul(coverage, One - minFrac), 0, One)
            radius == (plan.cs * frac) \div 2
            half == (plan.cs * One) \div 2
            rx == IF p.dotShape = "ellipse"
                  THEN clamp((radius * 125) \div 100, 0, (half * 14) \div 10)
                  ELSE radius
            ry == IF p.dotShape = "ellipse"
                  THEN clamp((radius * 85) \div 100, 0, (half * 12) \div 10)
                  ELSE radius
        IN  IF rx < Hundredths(35) \/ ry < Hundredths(35) THEN Faint(aSum)
            ELSE [dot |-> TRUE, cell |-> idx, shape |-> p.dotShape, den |-> aSum,
                  cx2 |-> box.x0 + box.x1, cy2 |-> box.y0 + box.y1,
                  radius |-> radius, rx |-> rx, ry |-> ry,
                  fill |-> <<r, g, b>>, opacity |-> a01,
                  used |-> Sum([i \in 1..count |-> IF pxs[i][4] > 0 THEN 1 ELSE 0]),
                  count |-> count]

----------------------------------------------------------------------------
(* Two more versions of the renderer: src/unnamed/part_000 samples with
   alpha-premultiplied sums ("premul"), src/unnamed/part_001 averages every
   pixel of the cell ("mean") *)

\* part_000:25, 28 and 31 (defaults)
MAX_IMAGE_PIXELS_premul == 50000000
MAX_WIDTH_PX == 3600
ALPHA_EPS == 8

\* part_001:38-39
MAX_PRINT_WIDTH_PX == 3600
ALPHA_THRESHOLD == 10

\* part_000:121-152: decode, pixel limit, resize, grid. No cell ceiling.
RenderPlan_premul(img, p) ==
    LET cappedMaxWidth == clamp(p.maxWidth, 256, MAX_WIDTH_PX)
        targetW == Min(img.w, cappedMaxWidth)
        w == ResizeW(img.w, targetW)
        h == ResizeH(img.w, img.h, targetW)
        cs == clamp(p.cellSize, 4, 80)
        cols == CeilDiv(w, cs)
        rows == CeilDiv(h, cs)
    IN  IF img.w * img.h > MAX_IMAGE_PIXELS_premul THEN NoPlan("Image too large")
        ELSE [throw |-> "", w |-> w, h |-> h, cs |-> cs, cols |-> cols, rows |-> rows,
              cellCount |-> cols * rows,
              left |-> 0, top |-> 0, cropW |-> img.w, cropH |-> img.h]

\* part_001:76-99: decode, resize, cell size; the loops step x and y by cs
\* from 0 while they are below w and h. No pixel limit and no cell ceiling.
RenderPlan_mean(img, p) ==
    LET scaleWidth == Min(Min(img.w, p.maxWidth), MAX_PRINT_WIDTH_PX)
        w == ResizeW(img.w, scaleWidth)
        h == ResizeH(img.w, img.h, scaleWidth)
        cs == clamp(p.cellSize, 6, 40)
        cols == CeilDiv(w, cs)
        rows == CeilDiv(h, cs)
    IN  [throw |-> "", w |-> w, h |-> h, cs |-> cs, cols |-> cols, rows |-> rows,
         cellCount |-> cols * rows,
         left |-> 0, top |-> 0, cropW |-> img.w, cropH |-> img.h]

\* part_000:219  Math.pow(dark, gamma), gamma = clamp(1 / (0.85 + 0.55 s),
\* 0.45, 1.2) > 0, at the two ends of the range, where it is exact
PowEnds(dark) ==
    CASE dark = 0 -> 0
      [] dark = One -> One

\* part_000:164-262: one iteration of the cell loop. strength is accepted in
\* 0..260 and arrives as a number.
CellDot_premul(img, p, plan, idx) ==
    LET box == CellBox(plan, idx)
        pxs == CellPixels(img, box)
        count == Len(pxs)
        used == [i \in 1..count |-> ~(pxs[i][4] <= ALPHA_EPS)]
        aRawSum == Sum([i \in 1..count |-> IF used[i] THEN pxs[i][4] ELSE 0])
        rSum == Sum([i \in 1..count |-> IF used[i] THEN pxs[i][1] * pxs[i][4] ELSE 0])
        gSum == Sum([i \in 1..count |-> IF used[i] THEN pxs[i][2] * pxs[i][4] ELSE 0])
        bSum == Sum([i \in 1..count |-> IF used[i] THEN pxs[i][3] * pxs[i][4] ELSE 0])
    IN  IF count = 0 THEN NoDot
        ELSE IF aRawSum <= 0 THEN NoDot
        ELSE
        LET avgAlpha == clamp((aRawSum * One) \div (count * 255), 0, One)
            r == ColourAvg(rSum, aRawSum)
            g == ColourAvg(gSum, aRawSum)
            b == ColourAvg(bSum, aRawSum)
            s == clamp(p.strength, 0, 260)
            dark == PowEnds(clamp((Darkness(r, g, b) * s) \div 100, 0, One))
            alphaScale == ISqrt(avgAlpha * One)
            radius == Mul((plan.cs * (Hundredths(8) + Mul(Hundredths(115) - Hundredths(8), dark)))
                            \div 2,
                          alphaScale)
        IN  IF radius < Hundredths(35) THEN Faint(aRawSum)
            ELSE [dot |-> TRUE, cell |-> idx, shape |-> p.dotShape, den |-> aRawSum,
                  cx2 |-> box.x0 + box.x1, cy2 |-> box.y0 + box.y1,
                  radius |-> radius,
                  rx100 |-> IF p.dotShape = "ellipse" THEN ToFixed2((radius * 118) \div 100)
                            ELSE ToFixed2(radius),
                  ry100 |-> IF p.dotShape = "ellipse" THEN ToFixed2((radius * 86) \div 100)
                            ELSE ToFixed2(radius),
                  fill |-> <<r, g, b>>,
                  opacity |-> avgAlpha,
                  used |-> Sum([i \in 1..count |-> IF used[i] THEN 1 ELSE 0]),
                  count |-> count]

\* part_001:99-137: one iteration of the two stepping loops. The averages
\* are not rounded: the luminance is taken from the sums, the fill holds the
\* integer parts (r | 0). The centre is the centre of the unclipped cell.
CellDot_mean(img, p, plan, idx) ==
    LET box == CellBox(plan, idx)
        pxs == CellPixels(img, box)
        count == Len(pxs)
        rSum == Sum([i \in 1..count |-> pxs[i][1]])
        gSum == Sum([i \in 1..count |-> pxs[i][2]])
        bSum == Sum([i \in 1..count |-> pxs[i][3]])
        aSum == Sum([i \in 1..count |-> pxs[i][4]])
    IN  IF count = 0 THEN NoDot
        ELSE IF aSum < ALPHA_THRESHOLD * count THEN Faint(count)
        ELSE
        LET darkness == One - ((luminance255(rSum, gSum, bSum) \div count) \div 255)
            half == (plan.cs * One) \div 2
            radius == clamp((plan.cs * darkness) \div 2, Hundredths(50), half)
        IN  [dot |-> TRUE, cell |-> idx, shape |-> p.dotShape, den |-> count,
             cx2 |-> 2 * box.x0 + plan.cs, cy2 |-> 2 * box.y0 + plan.cs,
             radius |-> radius,
             rx100 |-> ShapeRx100(p.dotShape, radius),
             ry100 |-> ShapeRy100(p.dotShape, radius),
             fill |-> <<rSum \div count, gSum \div count, bSum \div count>>,
             opacity |-> RoundDiv(aSum * 1000, count * 255) * 10,
             used |-> count, count |-> count]

----------------------------------------------------------------------------
(* POST /v1/halftone/process of the first and third version,
   server.js:403-544 and 1467-1602: the same stages without admission gate.
   rver tells which version of the server is running. *)

\* server.js:394-400 and 1459-1465  ProcessRequest: cellSize and maxWidth
ProcessRequest_crop(body) ==
    /\ body.cellSize >= MIN_CELL_crop /\ body.cellSize <= MAX_CELL_crop
    /\ body.maxWidth >= 256 /\ body.maxWidth <= HARD_MAX_WIDTH
ProcessRequest_raster(body) ==
    /\ body.cellSize >= 4 /\ body.cellSize <= 80
    /\ body.maxWidth >= 256 /\ body.maxWidth <= MAX_MAX_WIDTH

\* requests: cellSize below every schema minimum and inside both ranges
Bodies_plain == [cellSize : {3, MIN_CELL_crop}, maxWidth : {HARD_MAX_WIDTH}]

\* stored objects: byte length, decoded dimensions, and whether any pixel
\* holds ink (alpha above ALPHA_BBOX_THRESHOLD)
Objects_plain ==
    [bytes : ObjectBytes, inW : {3600}, inH : {100}, ink : {TRUE}]
    \cup [bytes : {1000}, inW : {3600}, inH : {16000, 17000}, ink : {TRUE}]
    \cup [bytes : {1000}, inW : {3600}, inH : {100}, ink : {FALSE}]

\* the pixel limit of the running version (server.js:27 and 1124)
MaxPixels_plain == IF rver = "crop" THEN MAX_IMAGE_PIXELS_crop ELSE MAX_IMAGE_PIXELS_raster

\* what makeColorHalftonePng does with the object of request q before it
\* reads pixels (server.js:487-492 and 1543-1552); an image with ink is
\* taken as inked up to its borders
PlanOf_plain(q) ==
    IF rver = "crop"
    THEN CropPlan(q.inW, q.inH,
                  IF q.ink THEN [left |-> 0, top |-> 0, right |-> q.inW - 1, bottom |-> q.inH - 1]
                  ELSE <<>>,
                  q)
    ELSE RenderPlan_raster([w |-> q.inW, h |-> q.inH],
                           [cellSize |-> q.cellSize, processingMaxWidth |-> q.maxWidth])

\* Mutant of catchResponse_crop: the default branch echoes the exception.
catchResponse_cropEcho(e, q) ==
    IF e = "Settings too heavy"
    THEN errJson(400, "TOO_HEAVY", {<<"message", e>>, <<"maxCells", MAX_CELLS_ESTIMATE_crop>>})
    ELSE IF e = "fully transparent"
    THEN errJson(400, "BAD_IMAGE", {<<"message", e>>})
    ELSE errJson(500, "INTERNAL", {<<"message", e>>})

\* server.js:529-543  catch (e) of the first version: the two errors the
\* renderer raises on purpose are passed on with their message,
\* everything else gets the opaque answer
catchResponse_crop(e, q) ==
    IF e = "Settings too heavy"
    THEN errJson(400, "TOO_HEAVY", {<<"message", e>>, <<"maxCells", MAX_CELLS_ESTIMATE_crop>>})
    ELSE IF e = "fully transparent"
    THEN errJson(400, "BAD_IMAGE", {<<"message", e>>})
    ELSE errJson(500, "INTERNAL", {<<"message", "Failed to process halftone">>})

\* server.js:1598-1601  catch (e) of the third version
catchResponse_raster(e) == errJson(500, "INTERNAL", {<<"message", "Failed to process halftone">>})

\* a return inside the try block: the response is sent
Exit_plain(r, response) ==
    /\ resp' = [resp EXCEPT ![r] = Append(@, response)]
    /\ pc' = [pc EXCEPT ![r] = "done"]
    /\ UNCHANGED <<ACTIVE_JOBS, req, work, incs, decs, caught>>
    /\ UNCHANGED renderVars

\* an exception reaches the catch clause of the running version
Throw_plain(r, e) ==
    /\ caught' = [caught EXCEPT ![r] = Append(@, e)]
    /\ resp' = [resp EXCEPT ![r] =
                  Append(@, IF rver = "crop" THEN catchResponse_crop(e, req[r])
                            ELSE catchResponse_raster(e))]
    /\ pc' = [pc EXCEPT ![r] = "done"]
    /\ UNCHANGED <<ACTIVE_JOBS, req, work, incs, decs>>
    /\ UNCHANGED renderVars

\* server.js:403-428 and 1467-1484: a request arrives, is validated and runs
\* up to the HeadObject await
Arrive_plain(r) ==
    /\ pc[r] = "idle"
    /\ UNCHANGED renderVars
    /\ \E body \in Bodies_plain, obj \in Objects_plain :
         /\ req' = [req EXCEPT ![r] = [cellSize |-> body.cellSize, maxWidth |-> body.maxWidth,
                                      bytes |-> obj.bytes, inW |-> obj.inW, inH |-> obj.inH,
                                      ink |-> obj.ink]]
         /\ IF ~(IF rver = "crop" THEN ProcessRequest_crop(body) ELSE ProcessRequest_raster(body))
            THEN /\ resp' = [resp EXCEPT ![r] = Append(@, errJson(400, "BAD_REQUEST", {}))]
                 /\ pc' = [pc EXCEPT ![r] = "done"]
                 /\ UNCHANGED <<ACTIVE_JOBS, work, incs, decs, caught>>
            ELSE /\ pc' = [pc EXCEPT ![r] = "head"]
                 /\ work' = [work EXCEPT ![r] = @ \cup {"HeadObject"}]
                 /\ UNCHANGED <<ACTIVE_JOBS, resp, incs, decs, caught>>

\* server.js:419-433 and 1480-1491: HeadObject resolves or rejects; the
\* warning that is logged for a rejection is not recorded for these versions
HeadDone_plain(r) ==
    /\ pc[r] = "head"
    /\ \E outcome \in {"reject", "resolve", "nolength"} :
         IF outcome = "resolve" /\ req[r].bytes > MAX_UPLOAD_BYTES
         THEN Exit_plain(r, errJson(413, "TOO_LARGE", {<<"limit", MAX_UPLOAD_BYTES>>}))
         ELSE Await(r, "get", "GetObject")

\* server.js:436-445 and 1493-1498: GetObject resolves or rejects
GetDone_plain(r) ==
    /\ pc[r] = "get"
    /\ \E outcome \in {"reject", "nobody", "resolve"} :
         CASE outcome = "reject" -> Throw_plain(r, "GetObject failed")
           [] outcome = "nobody" -> Exit_plain(r, errJson(404, "NOT_FOUND", {}))
           [] OTHER -> Await(r, "stream", "streamToBuffer")

\* server.js:445-452 and 1498-1507: the body is drained; size checks
StreamDone_plain(r) ==
    /\ pc[r] = "stream"
    /\ \E outcome \in {"reject", "resolve"} :
         IF outcome = "reject"
         THEN Throw_plain(r, "stream failed")
         ELSE IF req[r].bytes <= 0
         THEN Exit_plain(r, errJson(400, "BAD_IMAGE", {}))
         ELSE IF req[r].bytes > MAX_UPLOAD_BYTES
         THEN Exit_plain(r, errJson(413, "TOO_LARGE", {<<"limit", MAX_UPLOAD_BYTES>>}))
         ELSE Await(r, "meta", "metadata")

\* server.js:454-483 and 1509-1539: metadata; format, dimension and pixel checks
MetaDone_plain(r) ==
    /\ pc[r] = "meta"
    /\ \E outcome \in {"reject", "badformat", "nodims", "resolve"} :
         LET totalPixels == req[r].inW * req[r].inH IN
         IF outcome = "reject"
         THEN Exit_plain(r, errJson(400, "BAD_IMAGE", {}))
         ELSE IF outcome = "badformat"
         THEN Exit_plain(r, errJson(400, "BAD_IMAGE", {<<"format", 0>>}))
         ELSE IF outcome = "nodims"
         THEN Exit_plain(r, errJson(400, "BAD_IMAGE", {}))
         ELSE IF totalPixels > MaxPixels_plain
         THEN Exit_plain(r, errJson(413, "TOO_LARGE",
                      {<<"pixels", totalPixels>>, <<"width", req[r].inW>>,
                       <<"height", req[r].inH>>, <<"maxPixels", MaxPixels_plain>>}))
         ELSE Await(r, "render", "makeColorHalftonePng")

\* server.js:487-495 and 1543-1555: makeColorHalftonePng resolves or rejects
RenderDone_plain(r) ==
    /\ pc[r] = "render"
    /\ \E outcome \in {"reject", "resolve"} :
         IF outcome = "reject"
         THEN Throw_plain(r, "render failed")
         ELSE IF PlanOf_plain(req[r]).throw # ""
         THEN Throw_plain(r, PlanOf_plain(req[r]).throw)
         ELSE Await(r, "put", "PutObject")

\* server.js:497-504 and 1557-1564: the output upload resolves or rejects
PutDone_plain(r) ==
    /\ pc[r] = "put"
    /\ \E outcome \in {"reject", "resolve"} :
         IF outcome = "reject"
         THEN Throw_plain(r, "PutObject failed")
         ELSE Await(r, "sign", "getSignedUrl")

\* server.js:506-528 and 1566-1597: the download URL is signed; success
SignDone_plain(r) ==
    /\ pc[r] = "sign"
    /\ \E outcome \in {"reject", "resolve"} :
         IF outcome = "reject"
         THEN Throw_plain(r, "getSignedUrl failed")
         ELSE Exit_plain(r, errJson(200, "ok",
                 IF rver = "crop"
                 THEN {<<"width", PlanOf_plain(req[r]).w>>,
                       <<"height", PlanOf_plain(req[r]).h>>,
                       <<"cellCount", PlanOf_plain(req[r]).cellCount>>}
                 ELSE {<<"width", req[r].inW>>, <<"height", req[r].inH>>,
                       <<"processedWidth", PlanOf_plain(req[r]).w>>,
                       <<"processedHeight", PlanOf_plain(req[r]).h>>}))

Next_plain ==
    \E r \in Requests :
        \/ Arrive_plain(r)
        \/ HeadDone_plain(r)
        \/ GetDone_plain(r)
        \/ StreamDone_plain(r)
        \/ MetaDone_plain(r)
        \/ RenderDone_plain(r)
        \/ PutDone_plain(r)
        \/ SignDone_plain(r)

\* one of the three versions of the server is running
InitHandlers ==
    /\ JobsIdle
    /\ rver \in {"crop", "dtf", "raster"}
    /\ rin = <<>>
    /\ rpc = "off"
    /\ rcell = 0
    /\ shapes = <<>>
    /\ divs = <<>>
    /\ rout = <<>>

NextHandlers ==
    \/ rver = "dtf" /\ Next
    \/ rver # "dtf" /\ Next_plain

SpecHandlers == InitHandlers /\ [][NextHandlers]_vars

----------------------------------------------------------------------------
(* sharp(Buffer.from(svg)).png(), server.js:850-858: SVG rasterization *)

\* The SVG renderer behind sharp anti-aliases: a pixel receives a shape's
\* fill-opacity times the part of the pixel the shape covers. The covered
\* part is sampled at the four points (x + .25 | .75, y + .25 | .75).
SamplePoints == {<<25, 25>>, <<75, 25>>, <<25, 75>>, <<75, 75>>}

Abs(n) == IF n < 0 THEN -n ELSE n

\* Is the point (sx, sy), in hundredths of a pixel, inside shape d?
Inside(d, sx, sy) ==
    LET dx == Abs(sx - d.cx2 * 50)
        dy == Abs(sy - d.cy2 * 50)
    IN  /\ dx <= d.rx100
        /\ dy <= d.ry100
        /\ d.shape # "square" =>
             (dx * dx * 100) \div (d.rx100 * d.rx100)
               + (dy * dy * 100) \div (d.ry100 * d.ry100) <= 100

\* number of sample points of pixel (x, y) inside shape d
Covered(d, x, y) ==
    Cardinality({s \in SamplePoints : Inside(d, 100 * x + s[1], 100 * y + s[2])})

\* alpha (fixed point) of pixel (x, y) after painting the first n shapes in
\* document order with source-over compositing
RECURSIVE PaintAlpha(_, _, _, _)
PaintAlpha(ss, n, x, y) ==
    IF n = 0 THEN 0
    ELSE LET below == PaintAlpha(ss, n - 1, x, y)
             src == (ss[n].opacity * Covered(ss[n], x, y)) \div 4
         IN  src + Mul(below, One - src)

\* alpha channel (0..255) of the PNG that the rasterizer produces from the
\* SVG of width w and height h holding the shapes ss; a shape that covers no
\* sample point of a pixel leaves the pixel as it is
SvgAlpha(ss, w, h) ==
    [i \in 1..(w * h) |->
        LET x == (i - 1) % w
            y == (i - 1) \div w
            Touches(d) == Covered(d, x, y) > 0
            over == SelectSeq(ss, Touches)
        IN  RoundDiv(PaintAlpha(over, Len(over), x, y) * 255, One)]

----------------------------------------------------------------------------
(* The canvas of the third version, server.js:1264-1384 *)

\* server.js:1349-1378: is blendPixel called for pixel (x, y) while shape d
\* is drawn? Coordinates in hundredths of a pixel.
Hits(d, x, y, w, h) ==
    LET cx == d.cx2 * 50
        cy == d.cy2 * 50
        rx == d.rx \div 100
        ry == d.ry \div 100
        minX == clamp((cx - rx) \div 100, 0, w - 1)
        maxX == clamp(CeilDiv(cx + rx, 100), 0, w - 1)
        minY == clamp((cy - ry) \div 100, 0, h - 1)
        maxY == clamp(CeilDiv(cy + ry, 100), 0, h - 1)
        dx == Abs(100 * x + 50 - cx)
        dy == Abs(100 * y + 50 - cy)
    IN  /\ x >= minX /\ x <= maxX
        /\ y >= minY /\ y <= maxY
        /\ d.shape # "square" =>
             (dx * dx * 100) \div (rx * rx) + (dy * dy * 100) \div (ry * ry) <= 100

\* server.js:1267-1288  blendPixel: the alpha byte of a pixel after the
\* first n shapes that hit it were blended, in drawing order
RECURSIVE BlendAlpha(_, _)
BlendAlpha(ss, n) ==
    IF n = 0 THEN 0
    ELSE LET below == BlendAlpha(ss, n - 1)
             a01 == ss[n].opacity
             pa01 == (below * One) \div 255
             outA == a01 + Mul(pa01, One - a01)
         IN  IF a01 <= 0 \/ outA <= 0 THEN below
             ELSE clamp(RoundDiv(outA * 255, One), 0, 255)

\* alpha channel of the w x h canvas after the shapes ss were drawn
CanvasAlpha(ss, w, h) ==
    [i \in 1..(w * h) |->
        LET x == (i - 1) % w
            y == (i - 1) \div w
            Hit(d) == Hits(d, x, y, w, h)
            over == SelectSeq(ss, Hit)
        IN  BlendAlpha(over, Len(over))]

----------------------------------------------------------------------------
(* One call of makeColorHalftonePng, followed stage by stage *)

\* the renderer of each version: what it does before it reads pixels
PlanFor(ver, img, p) ==
    CASE ver = "crop" -> RenderPlan_crop(img, p)
      [] ver = "dtf" -> RenderPlan(img.w, img.h, p.maxWidth, p.cellSize)
      [] ver = "raster" -> RenderPlan_raster(img, p)
      [] ver = "premul" -> RenderPlan_premul(img, p)
      [] ver = "mean" -> RenderPlan_mean(img, p)

\* the raw buffer the sampling loop reads (server.js:211, 732 and 1256).
\* Inputs narrower than 256 px are never resampled (withoutEnlargement): the
\* buffer is the decoded input, cropped in the first version.
DataFor(ver, img, plan) ==
    IF ver = "crop"
    THEN Extract(img, plan.left, plan.top, plan.cropW, plan.cropH)
    ELSE img

\* one iteration of the cell loop of each version
DotFor(ver, data, p, plan, idx) ==
    CASE ver = "crop" -> CellDot_crop(data, p, plan, idx)
      [] ver = "dtf" -> CellDot(data, p, plan, idx)
      [] ver = "raster" -> CellDot_raster(data, p, plan, idx)
      [] ver = "premul" -> CellDot_premul(data, p, plan, idx)
      [] ver = "mean" -> CellDot_mean(data, p, plan, idx)

\* plan and buffer of the running call
RPlan == PlanFor(rver, rin.img, rin.p)
RData == DataFor(rver, rin.img, RPlan)

\* server.js:158-226, 702-740 and 1219-1264, part_000:121-158,
\* part_001:76-99: decode, size checks, (crop,) resize, grid
RenderBegin ==
    /\ rpc = "start"
    /\ IF RPlan.throw # ""
       THEN /\ rpc' = "done"
            /\ rout' = [throw |-> RPlan.throw]
       ELSE /\ rpc' = "cells"
            /\ rout' = rout
    /\ UNCHANGED <<rver, rin, rcell, shapes, divs>>
    /\ UNCHANGED jobVars

\* Mutant of RenderCell: the loop over the cells ends one iteration early.
RenderCellEarlyEncode ==
    /\ rpc = "cells"
    /\ LET d == DotFor(rver, RData, rin.p, RPlan, rcell)
       IN  /\ shapes' = IF d.dot THEN Append(shapes, d) ELSE shapes
           /\ divs' = IF "den" \in DOMAIN d THEN Append(divs, d.den) ELSE divs
    /\ rcell' = rcell + 1
    /\ rpc' = IF rcell + 1 >= RPlan.cellCount - 1 THEN "encode" ELSE "cells"
    /\ UNCHANGED <<rver, rin, rout>>
    /\ UNCHANGED jobVars

\* server.js:228-315, 743-848 and 1290-1381, part_000:160-272,
\* part_001:101-137: one iteration of the loop over the cells. The iteration
\* reads the cell's pixels, computes the dot and pushes its SVG element; in
\* the third version it blends the dot into the canvas instead.
RenderCell ==
    /\ rpc = "cells"
    /\ LET d == DotFor(rver, RData, rin.p, RPlan, rcell)
       IN  /\ shapes' = IF d.dot THEN Append(shapes, d) ELSE shapes
           /\ divs' = IF "den" \in DOMAIN d THEN Append(divs, d.den) ELSE divs
    /\ rcell' = rcell + 1
    /\ rpc' = IF rcell + 1 = RPlan.cellCount THEN "encode" ELSE "cells"
    /\ UNCHANGED <<rver, rin, rout>>
    /\ UNCHANGED jobVars

\* server.js:317-333, 850-860 and 1383-1400, part_000:274-279,
\* part_001:139-160: the SVG is rasterized (the canvas of the third version
\* is complete; rasters that were not resized are not scaled back) and
\* encoded, the call returns
RenderEncode ==
    /\ rpc = "encode"
    /\ rout' = [throw |-> "", width |-> RPlan.w, height |-> RPlan.h,
                cellCount |-> RPlan.cellCount, dots |-> Len(shapes),
                alpha |-> IF rver = "raster" THEN CanvasAlpha(shapes, RPlan.w, RPlan.h)
                          ELSE SvgAlpha(shapes, RPlan.w, RPlan.h),
                croppedFrom |-> IF rver = "crop"
                                THEN <<RPlan.left, RPlan.top, RPlan.cropW, RPlan.cropH>>
                                ELSE <<>>]
    /\ rpc' = "done"
    /\ UNCHANGED <<rver, rin, rcell, shapes, divs>>
    /\ UNCHANGED jobVars

----------------------------------------------------------------------------
(* Inputs of the renderer *)

MaxW == 9
MaxH == 1

\* sample values: fully transparent black and white, black at the two alpha
\* thresholds in use (8 and 48), opaque black and white
Palette == {<<0, 0, 0, 0>>, <<255, 255, 255, 0>>, <<0, 0, 0, 8>>,
            <<0, 0, 0, 48>>, <<0, 0, 0, 255>>, <<255, 255, 255, 255>>}

\* rasters whose first k columns hold sample a and whose other columns hold b
SplitImage(w, h, k, a, b) ==
    [w |-> w, h |-> h, px |-> [i \in 1..(w * h) |-> IF (i - 1) % w < k THEN a ELSE b]]

Images ==
    {SplitImage(w, h, k, a, b) :
        w \in (MaxW - 1)..MaxW, h \in 1..MaxH, k \in 1..MaxW, a \in Palette, b \in Palette}

DotShapes == {"circle", "square", "ellipse"}

\* parameter sets of the dtfSafe renderer (dotGain, minDot and minCoverage
\* in hundredths)
Params ==
    [cellSize : {MIN_CELL}, maxWidth : {2000}, dotShape : DotShapes,
     dotGain : {40, 135}, minDot : {0, 12}, dtfSafe : BOOLEAN,
     alphaThreshold : {8, 48}, minCoverage : {20, 50}]

\* parameter sets of the alpha-crop renderer; strength is accepted in 0..250
Strengths_crop == {0, 25, 50, 100, 200}
Params_crop ==
    [cellSize : {MIN_CELL_crop}, maxWidth : {2000}, dotShape : DotShapes,
     strength : Strengths_crop]

\* darkness values of the other two renderers used to compare renders
DotGains == {40, 100, 135, 300}
Strengths_raster == {50, 100, 200}

InitRender ==
    /\ JobsIdle
    /\ \/ rver = "dtf" /\ rin \in [img : Images, p : Params]
       \/ rver = "crop" /\ rin \in [img : Images, p : Params_crop]
    /\ rpc = "start"
    /\ rcell = 0
    /\ shapes = <<>>
    /\ divs = <<>>
    /\ rout = <<>>

NextRender == RenderBegin \/ RenderCell \/ RenderEncode

SpecRender == InitRender /\ [][NextRender]_vars

\* parameter sets of the other three renderers
Params_raster ==
    [cellSize : {4}, processingMaxWidth : {2000}, dotShape : DotShapes,
     strength : Strengths_raster]
Params_premul ==
    [cellSize : {4}, maxWidth : {2000}, dotShape : DotShapes, strength : {0, 100, 200, 260}]
Params_mean == [cellSize : {6}, maxWidth : {2000}, dotShape : DotShapes]

\* the samples of Palette and white one step above the lowest threshold
CellPalette == Palette \cup {<<255, 255, 255, 9>>}

\* the ink of a raster as part_000 sees it
Inks(img) == {<<px[1], px[2], px[3]>> : px \in {img.px[i] : i \in 1..(img.w * img.h)} \cap
                                              {q \in CellPalette : q[4] > ALPHA_EPS}}

\* rasters of one row with two runs of samples
RowImages ==
    {SplitImage(MaxW, 1, k, a, b) : k \in {2, 5}, a \in CellPalette, b \in CellPalette}

\* the dtfSafe renderer's parameters on these rasters: samples of alpha 8 and
\* 48 sit at the first threshold and one step above the second
Params_cells ==
    [cellSize : {MIN_CELL}, maxWidth : {2000}, dotShape : DotShapes,
     dotGain : {40, 135}, minDot : {0, 12}, dtfSafe : BOOLEAN,
     alphaThreshold : {8, 47}, minCoverage : {0, 20}]

\* every renderer on the rasters of one row; part_000 on those whose ink has
\* one colour (black or white)
InitCells ==
    /\ JobsIdle
    /\ \/ rver = "dtf" /\ rin \in [img : RowImages, p : Params_cells]
       \/ rver = "crop" /\ rin \in [img : RowImages, p : Params_crop]
       \/ rver = "raster" /\ rin \in [img : RowImages, p : Params_raster]
       \/ rver = "premul"
          /\ rin \in [img : {img \in RowImages : Cardinality(Inks(img)) <= 1}, p : Params_premul]
       \/ rver = "mean" /\ rin \in [img : RowImages, p : Params_mean]
    /\ rpc = "start"
    /\ rcell = 0
    /\ shapes = <<>>
    /\ divs = <<>>
    /\ rout = <<>>

SpecCells == InitCells /\ [][NextRender]_vars

----------------------------------------------------------------------------
(* Properties of the admission gate *)

\* C1: the number of requests past the admission gate and not yet finished
\* never exceeds MAX_CONCURRENT_JOBS, and ACTIVE_JOBS always equals that
\* number (so it is never negative).
C1_AdmissionBound ==
    /\ ACTIVE_JOBS = Cardinality({r \in Requests : pc[r] \in InFlight})
    /\ ACTIVE_JOBS <= MAX_CONCURRENT_JOBS
    /\ ACTIVE_JOBS >= 0

\* C1 witness: the gate is full while another request has come and gone.
C1_Witness ==
    \E r1, r2 \in Requests :
        /\ r1 # r2
        /\ pc[r1] \in InFlight
        /\ pc[r2] = "done"
        /\ ACTIVE_JOBS = MAX_CONCURRENT_JOBS

\* C2: every request that incremented ACTIVE_JOBS decrements it exactly once,
\* on every exit path: while in flight it holds one increment and no
\* decrement, once finished it has as many decrements as increments, and it
\* never increments more than once.
C2_ReleaseExactlyOnce ==
    \A r \in Requests :
        /\ incs[r] <= 1
        /\ pc[r] \in InFlight => incs[r] = 1 /\ decs[r] = 0
        /\ pc[r] = "done" => decs[r] = incs[r]
        /\ pc[r] = "idle" => incs[r] = 0 /\ decs[r] = 0

\* C2 witness: an admitted request left through an error path (an early
\* return or the catch branch) and released its slot.
C2_Witness ==
    \E r \in Requests :
        /\ pc[r] = "done"
        /\ incs[r] = 1
        /\ decs[r] = 1
        /\ resp[r][1].status \in {400, 404, 413, 500}

\* C3: a valid request arriving while ACTIVE_JOBS >= MAX_CONCURRENT_JOBS is
\* answered at once with 429 BUSY, starts no S3 or render work and leaves
\* ACTIVE_JOBS unchanged; a request answered BUSY is never run later.
C3_BusyRejected ==
    [][\A r \in Requests :
          /\ ( /\ pc[r] = "idle"
               /\ pc'[r] # "idle"
               /\ req'[r].cellSize \in MIN_CELL..MAX_CELL
               /\ req'[r].maxWidth \in 256..4000
               /\ ACTIVE_JOBS >= MAX_CONCURRENT_JOBS )
             => ( /\ pc'[r] = "done"
                  /\ resp'[r] = <<[status |-> 429, code |-> "BUSY", info |-> {}]>>
                  /\ work'[r] = {}
                  /\ incs'[r] = 0
                  /\ ACTIVE_JOBS' = ACTIVE_JOBS )
          /\ ( resp[r] # <<>> /\ resp[r][1].code = "BUSY" )
             => ( pc'[r] = "done" /\ work'[r] = {} /\ resp'[r] = resp[r] )
      ]_vars

\* C3 witness: a request has been turned away with BUSY.
C3_Witness ==
    \E r \in Requests :
        /\ pc[r] = "done"
        /\ resp[r] = <<[status |-> 429, code |-> "BUSY", info |-> {}]>>
        /\ work[r] = {}

----------------------------------------------------------------------------
(* Properties of the handler's answers *)

\* The handler has called makeColorHalftonePng for request r
Rendered(r) == "makeColorHalftonePng" \in work[r]

\* C7: whenever the estimated cell count exceeds MAX_CELLS_ESTIMATE the
\* request ends with the SettingsTooHeavy client error carrying the estimate
\* and the ceiling, never with a generic internal (500) failure.
C7_TooHeavyIsClientError ==
    \A r \in Requests :
        ( /\ pc[r] = "done"
          /\ Rendered(r)
          /\ PlanOf(req[r]).cellCount > MAX_CELLS_ESTIMATE )
        => ( /\ Len(resp[r]) = 1
             /\ resp[r][1].status \in 400..499
             /\ resp[r][1].code = "TOO_HEAVY"
             /\ <<"cells", PlanOf(req[r]).cellCount>> \in resp[r][1].info
             /\ <<"maxCells", MAX_CELLS_ESTIMATE>> \in resp[r][1].info )

\* C8 (as claimed): a request whose cellSize is below MIN_CELL is not
\* rejected; it is accepted and rendered with the cell size raised to MIN_CELL.
C8_BelowMinAccepted ==
    \A r \in Requests :
        ( pc[r] = "done" /\ req[r].cellSize < MIN_CELL /\ req[r].maxWidth \in 256..4000 )
        => ( resp[r][1].code # "BAD_REQUEST" )

\* C8 (amended): a request whose cellSize is below MIN_CELL is rejected by
\* the schema with 400 BAD_REQUEST before the admission gate and before any
\* work; every cell size the sampler uses lies in [MIN_CELL, MAX_CELL].
C8_BelowMinRejected ==
    \A r \in Requests :
        /\ ( pc[r] # "idle" /\ req[r].cellSize < MIN_CELL )
           => ( /\ pc[r] = "done"
                /\ resp[r] = <<[status |-> 400, code |-> "BAD_REQUEST", info |-> {}]>>
                /\ work[r] = {}
                /\ incs[r] = 0 )
        /\ Rendered(r)
           => ( /\ PlanOf(req[r]).cs >= MIN_CELL
                /\ PlanOf(req[r]).cs <= MAX_CELL )

\* C8 witness: one request with cellSize below MIN_CELL was turned away,
\* another was rendered with a cell size inside the range.
C8_Witness ==
    \E r1, r2 \in Requests :
        /\ pc[r1] = "done"
        /\ req[r1].cellSize < MIN_CELL
        /\ resp[r1][1].code = "BAD_REQUEST"
        /\ Rendered(r2)
        /\ PlanOf(req[r2]).cs \in MIN_CELL..MAX_CELL

----------------------------------------------------------------------------
(* Properties of the renderers *)

\* the alpha threshold in force for the running call
ThresholdInForce == IF rver = "crop" THEN ALPHA_BBOX_THRESHOLD ELSE alphaThr(rin.p)

\* number of pixels of cell idx whose alpha exceeds the threshold, and the
\* number of pixels of the cell, counted from the input raster
InkIn(idx) ==
    LET pxs == CellPixels(rin.img, CellBox(RPlan, idx))
    IN  Cardinality({i \in 1..Len(pxs) : pxs[i][4] > ThresholdInForce})
SizeOf(idx) == Len(CellPixels(rin.img, CellBox(RPlan, idx)))

\* cell idx has been processed and a shape was emitted for it
HasDot(idx) == \E i \in 1..Len(shapes) : shapes[i].cell = idx
DotOf(idx) == shapes[CHOOSE i \in 1..Len(shapes) : shapes[i].cell = idx]

\* C4: for every input image in which every pixel's alpha is <= the alpha
\* threshold the call ends with the FullyTransparentInput error, never with
\* a successful result.
C4_TransparentRejected ==
    ( /\ rpc = "done"
      /\ \A i \in 1..Len(rin.img.px) : rin.img.px[i][4] <= ThresholdInForce )
    => ( rout.throw = "fully transparent" )

\* C5: with dtfSafe = true every pixel of the output raster has alpha
\* exactly 0 or exactly 255.
C5_BinaryAlpha ==
    ( rpc = "done" /\ rver = "dtf" /\ rin.p.dtfSafe /\ rout.throw = "" )
    => ( \A i \in 1..Len(rout.alpha) : rout.alpha[i] \in {0, 255} )

\* C6: in both alpha modes a cell whose fraction of pixels with
\* alpha > alphaThreshold is below minCoverage emits no shape; with
\* dtfSafe = false and minCoverage = 0.5 a cell less than half covered
\* produces no dot, and a cell fully covered by opaque ink that produces a
\* dot produces it with opacity 1.0.
C6_CoverageFloor ==
    ( rver = "dtf" /\ rpc # "off" /\ (rpc = "done" => rout.throw = "") )
    => \A idx \in 0..(rcell - 1) :
         /\ ( InkIn(idx) * 100 < minCov(rin.p) * SizeOf(idx) ) => ~HasDot(idx)
         /\ ( ~rin.p.dtfSafe /\ rin.p.minCoverage = 50 /\ 2 * InkIn(idx) < SizeOf(idx) )
            => ~HasDot(idx)
         /\ ( /\ ~rin.p.dtfSafe
              /\ HasDot(idx)
              /\ \A i \in 1..SizeOf(idx) :
                    CellPixels(rin.img, CellBox(RPlan, idx))[i][4] = 255 )
            => DotOf(idx).opacity = One

\* sum of the dot radii over all grid cells (a cell without dot counts 0)
\* of the render of img by renderer ver with parameters p
TotalRadius(ver, img, p) ==
    LET plan == PlanFor(ver, img, p)
        data == DataFor(ver, img, plan)
    IN  IF plan.throw # "" THEN 0
        ELSE Sum([i \in 1..plan.cellCount |->
                    LET d == DotFor(ver, data, p, plan, i - 1)
                    IN  IF d.dot THEN d.radius ELSE 0])

\* C10: with the raster and all other parameters fixed, for accepted values
\* p1 <= p2 of the darkness parameter (strength in the first and third
\* renderer, dotGain in the second) the average dot radius over all cells
\* under p2 is not smaller than under p1.
C10_DarknessMonotone ==
    ( rpc = "done" )
    => /\ rver = "crop" =>
            \A s1, s2 \in Strengths_crop :
                s1 <= s2 => TotalRadius("crop", rin.img, [rin.p EXCEPT !.strength = s1])
                              <= TotalRadius("crop", rin.img, [rin.p EXCEPT !.strength = s2])
       /\ rver = "dtf" =>
            \A g1, g2 \in DotGains :
                g1 <= g2 => TotalRadius("dtf", rin.img, [rin.p EXCEPT !.dotGain = g1])
                              <= TotalRadius("dtf", rin.img, [rin.p EXCEPT !.dotGain = g2])
       /\ \A s1, s2 \in Strengths_raster :
            s1 <= s2 =>
              TotalRadius("raster", rin.img,
                          [cellSize |-> rin.p.cellSize, processingMaxWidth |-> rin.p.maxWidth,
                           dotShape |-> rin.p.dotShape, strength |-> s1])
                <= TotalRadius("raster", rin.img,
                          [cellSize |-> rin.p.cellSize, processingMaxWidth |-> rin.p.maxWidth,
                           dotShape |-> rin.p.dotShape, strength |-> s2])

----------------------------------------------------------------------------
(* Output dimensions and grids of the renderers. They depend on the
   input's dimensions, on maxWidth and on cellSize only, so the rasters are
   left out and the inputs are production-sized. *)

InputWidths == {100, 3000, 5000}
InputHeights == {100, 5000, 13000}
RequestWidths == {256, 2000, 3600, 4000}
SizeCellSizes == {MIN_CELL, MAX_CELL}

\* the versions whose grid is modelled
SizeVersions == {"crop", "dtf", "raster", "premul", "mean"}

\* the request schemas, server.js:394-400, 916-926, 1459-1465 and
\* part_000:341-347: the extreme cell sizes and the largest maxWidth each
\* accepts. part_001:185 takes the body as it is; its renderer clamps the
\* cell size to 6..40.
SchemaCellSizes(ver) ==
    CASE ver = "crop" -> {MIN_CELL_crop, MAX_CELL_crop}
      [] ver = "dtf" -> SizeCellSizes
      [] ver = "raster" -> {4, 80}
      [] ver = "premul" -> {4, 80}
      [] ver = "mean" -> {6, 40}
SchemaMaxWidth(ver) ==
    CASE ver = "crop" -> HARD_MAX_WIDTH
      [] ver = "dtf" -> 4000
      [] ver = "raster" -> MAX_MAX_WIDTH
      [] ver = "premul" -> MAX_WIDTH_PX
      [] ver = "mean" -> 4000

\* server.js:487, 1026 and 1546, part_000:431, part_001:197: the arguments
\* the handler passes to the renderer; the input of the first version is
\* inked up to its borders
SizePlan ==
    CASE rver = "dtf" ->
           RenderPlan(rin.img.w, rin.img.h, maxWidthClamped(rin.p), rin.p.cellSize)
      [] rver = "raster" ->
           RenderPlan_raster(rin.img, [cellSize |-> rin.p.cellSize,
                                       processingMaxWidth |-> rin.p.maxWidth])
      [] rver = "crop" ->
           CropPlan(rin.img.w, rin.img.h,
                    [left |-> 0, top |-> 0, right |-> rin.img.w - 1, bottom |-> rin.img.h - 1],
                    rin.p)
      [] rver = "premul" -> RenderPlan_premul(rin.img, rin.p)
      [] rver = "mean" -> RenderPlan_mean(rin.img, rin.p)

\* server.js:158-211, 704-732 and 1228-1256, part_000:121-152,
\* part_001:76-99: metadata, pixel limit, resize, grid and cell ceiling, up
\* to the raw buffer
SizeResize ==
    /\ rpc = "probe"
    /\ IF SizePlan.throw # ""
       THEN /\ rpc' = "done"
            /\ rout' = [throw |-> SizePlan.throw]
       ELSE /\ rpc' = "resized"
            /\ rout' = rout
    /\ UNCHANGED <<rver, rin, rcell, shapes, divs>>
    /\ UNCHANGED jobVars

\* server.js:287-300, 850-860 and 1383-1400, part_000:275-289,
\* part_001:139-150: encode (the third renderer scales the PNG back to the
\* original dimensions) and return
SizeReturn ==
    /\ rpc = "resized"
    /\ rout' = IF rver # "raster"
               THEN [throw |-> "", width |-> SizePlan.w, height |-> SizePlan.h,
                     processedWidth |-> SizePlan.w, processedHeight |-> SizePlan.h]
               ELSE [throw |-> "", width |-> rin.img.w, height |-> rin.img.h,
                     processedWidth |-> SizePlan.w, processedHeight |-> SizePlan.h]
    /\ rpc' = "done"
    /\ UNCHANGED <<rver, rin, rcell, shapes, divs>>
    /\ UNCHANGED jobVars

InitSize ==
    /\ JobsIdle
    /\ rver \in SizeVersions
    /\ rin \in [img : [w : InputWidths, h : InputHeights],
                p : [cellSize : SchemaCellSizes(rver),
                     maxWidth : {mw \in RequestWidths : mw <= SchemaMaxWidth(rver)}]]
    /\ rpc = "probe"
    /\ rcell = 0
    /\ shapes = <<>>
    /\ divs = <<>>
    /\ rout = <<>>

NextSize == SizeResize \/ SizeReturn

SpecSize == InitSize /\ [][NextSize]_vars

\* C9: the second renderer returns width min(inW, maxWidth) with the height
\* scaled by the same ratio and never larger than the input; the third
\* renderer returns the input's width and height whatever maxWidth is.
C9_OutputDimensions ==
    ( rpc = "done" /\ rout.throw = "" )
    => /\ rver = "dtf" =>
            /\ rout.width = Min(rin.img.w, rin.p.maxWidth)
            /\ rout.height = IF rout.width = rin.img.w THEN rin.img.h
                             ELSE Max(1, RoundDiv(rin.img.h * rout.width, rin.img.w))
            /\ rout.width <= rin.img.w
            /\ rout.height <= rin.img.h
       /\ rver = "raster" =>
            /\ rout.width = rin.img.w
            /\ rout.height = rin.img.h

----------------------------------------------------------------------------
(* The second renderer on rasters of opaque black ink *)

\* a w x h raster whose every pixel is opaque black
BlackImage(w, h) == SplitImage(w, h, w, <<0, 0, 0, 255>>, <<0, 0, 0, 255>>)

\* small rasters with every look knob, and the 100 x 100 square with the
\* default look
SceneInputs ==
    [img : {BlackImage(9, 1), BlackImage(17, 9), BlackImage(30, 20)},
     p : [cellSize : {MIN_CELL, 10}, maxWidth : {100, 2000}, dotShape : {"circle"},
          dotGain : {40, 100, 135}, minDot : {0, 12}, dtfSafe : BOOLEAN,
          alphaThreshold : {10}, minCoverage : {20}]]
    \cup
    [img : {BlackImage(100, 100)},
     p : [cellSize : {10}, maxWidth : {100}, dotShape : {"circle"},
          dotGain : {135}, minDot : {12}, dtfSafe : {TRUE},
          alphaThreshold : {10}, minCoverage : {20}]]

InitScene ==
    /\ JobsIdle
    /\ rver = "dtf"
    /\ rin \in SceneInputs
    /\ rpc = "start"
    /\ rcell = 0
    /\ shapes = <<>>
    /\ divs = <<>>
    /\ rout = <<>>

SpecScene == InitScene /\ [][NextRender]_vars

\* the look knobs leave a black cell at this fraction of half the cell size
\* (server.js:805-808), in fixed point
BlackFraction(p) ==
    LET darknessAdj == clamp(dotGainClamped(p) * 100, 0, One)
    IN  Hundredths(minDotClamped(p)) + Mul(One - Hundredths(minDotClamped(p)), darknessAdj)

\* C11 (as claimed): on an opaque black raster with dotShape = circle and
\* alphaThreshold = 10 every cell emits one dot, black, with radius exactly
\* half the cell size; the 100 x 100 square at cellSize 10 gives 100 dots
\* and a 100 x 100 output.
C11_BlackCellsFullRadius ==
    ( rpc = "done" )
    => /\ rout.throw = ""
       /\ rout.dots = rout.cellCount
       /\ \A i \in 1..Len(shapes) :
            /\ shapes[i].fill = <<0, 0, 0>>
            /\ 2 * shapes[i].radius = RPlan.cs * One
       /\ ( rin.img.w = 100 /\ rin.img.h = 100 )
            => ( rout.dots = 100 /\ rout.width = 100 /\ rout.height = 100 )

\* C11 (amended): on an opaque black raster with dotShape = circle and
\* alphaThreshold = 10 every cell emits one dot, so the dot count is the
\* cell count; each dot is black and its radius is half the cell size times
\* minDot + (1 - minDot) * min(1, dotGain), which is half the cell size
\* exactly when dotGain >= 1; the 100 x 100 square at cellSize 10 gives 100
\* dots of radius 5 and a 100 x 100 output.
C11_BlackCellsOneDotEach ==
    ( rpc = "done" )
    => /\ rout.throw = ""
       /\ rout.dots = rout.cellCount
       /\ \A c \in 0..(rout.cellCount - 1) :
            Cardinality({i \in 1..Len(shapes) : shapes[i].cell = c}) = 1
       /\ \A i \in 1..Len(shapes) :
            /\ shapes[i].fill = <<0, 0, 0>>
            /\ 2 * shapes[i].radius = RPlan.cs * BlackFraction(rin.p)
            /\ rin.p.dotGain >= 100 => 2 * shapes[i].radius = RPlan.cs * One
       /\ ( rin.img.w = 100 /\ rin.img.h = 100 )
            => /\ rout.dots = 100 /\ rout.width = 100 /\ rout.height = 100
               /\ \A i \in 1..Len(shapes) : shapes[i].radius = 5 * One

\* a 30 x 20 black raster has been rendered with cells of 10 pixels and the
\* default look into 6 dots of radius 5
C11_Witness ==
    /\ rpc = "done"
    /\ rin.img.w = 30 /\ rin.img.h = 20
    /\ rin.p.cellSize = 10 /\ rin.p.dotGain = 135 /\ rin.p.dtfSafe
    /\ rout.throw = "" /\ rout.dots = 6
    /\ \A i \in 1..Len(shapes) : shapes[i].radius = 5 * One

----------------------------------------------------------------------------
(* The size limits of the handler, server.js:967-1022 *)

\* the stored object of request r is over one of the two size limits
Oversized(r) ==
    \/ req[r].bytes > MAX_UPLOAD_BYTES
    \/ req[r].inW * req[r].inH > MAX_IMAGE_PIXELS

\* C12: a request whose object exceeds MAX_UPLOAD_BYTES or whose image
\* exceeds MAX_IMAGE_PIXELS is answered with the client error TOO_LARGE that
\* carries the offending value and the limit, and the render, the upload of
\* the output and the signing are never reached for it.
C12_TooLargeCarriesValueAndLimit ==
    \A r \in Requests :
        /\ ( Oversized(r) /\ pc[r] # "idle" )
           => work[r] \cap {"makeColorHalftonePng", "PutObject", "getSignedUrl"} = {}
        /\ \A i \in 1..Len(resp[r]) :
             ( resp[r][i].code = "TOO_LARGE" )
             => /\ resp[r][i].status \in 400..499
                /\ \/ /\ <<"bytes", req[r].bytes>> \in resp[r][i].info
                      /\ <<"limit", MAX_UPLOAD_BYTES>> \in resp[r][i].info
                   \/ /\ <<"pixels", req[r].inW * req[r].inH>> \in resp[r][i].info
                      /\ <<"maxPixels", MAX_IMAGE_PIXELS>> \in resp[r][i].info

----------------------------------------------------------------------------
(* The catch clauses, server.js:529-543, 1075-1080 and 1598-1601 *)

\* failures of the image library and of the object store: exceptions the
\* renderer does not raise on purpose
LibraryFailures ==
    {"GetObject failed", "stream failed", "render failed", "PutObject failed",
     "getSignedUrl failed"}

\* C13: an unexpected exception raised while rendering or storing the result
\* is answered with the fixed opaque error (500, INTERNAL, "Failed to
\* process halftone"), and nothing of the exception is copied into the
\* response, in each of the three handlers.
C13_OpaqueInternalError ==
    \A r \in Requests :
        \A i \in 1..Len(caught[r]) :
            ( caught[r][i] \in LibraryFailures )
            => /\ resp[r] = << errJson(500, "INTERNAL",
                                       {<<"message", "Failed to process halftone">>}) >>
               /\ \A kv \in resp[r][1].info : kv[2] # caught[r][i]

\* the first version's catch, the one with branches, has answered a failure
\* of the render
C13_Witness ==
    /\ rver = "crop"
    /\ \E r \in Requests :
         /\ caught[r] = <<"render failed">>
         /\ resp[r][1].status = 500

----------------------------------------------------------------------------
(* Resize widths *)

\* C14: in every renderer the width the image is resized to before sampling
\* never exceeds the hard ceiling of 3600 px, whatever maxWidth the schema
\* accepted and whatever the input's width.
C14_ResizeWidthCapped ==
    ( rpc \in {"resized", "done"} /\ SizePlan.throw = "" )
    => SizePlan.w <= HARD_MAX_WIDTH

----------------------------------------------------------------------------
(* Dot sizes *)

\* half the cell size of the running call, in fixed point
HalfCell == (RPlan.cs * One) \div 2

\* C15 as stated: every emitted dot of every renderer has a radius between
\* 0 and half the cell size.
C15_RadiusWithinHalfCell ==
    \A i \in 1..Len(shapes) :
        shapes[i].radius >= 0 /\ shapes[i].radius <= HalfCell

\* C15, amended: every emitted dot has a radius that is not negative and at
\* most half the cell size, except in the part_000 renderer, whose dots
\* reach up to 1.15 times half the cell size (maxFrac, part_000:230).
C15_RadiusWithinCeiling ==
    \A i \in 1..Len(shapes) :
        /\ shapes[i].radius >= 0
        /\ rver # "premul" => shapes[i].radius <= HalfCell
        /\ rver = "premul" => 100 * shapes[i].radius <= 115 * HalfCell

\* a call of each kind has finished: a part_000 dot larger than half the
\* cell, or a full-size dot of another renderer
C15_Witness ==
    /\ rpc = "done"
    /\ \E i \in 1..Len(shapes) :
         IF rver = "premul" THEN 100 * shapes[i].radius = 115 * HalfCell
         ELSE rver = "raster" /\ shapes[i].radius = HalfCell

----------------------------------------------------------------------------
(* Ink and background *)

\* the alpha threshold of the running call (server.js:40, 739 and 1305,
\* part_000:31, part_001:39)
Threshold ==
    CASE rver = "dtf" -> alphaThr(rin.p)
      [] rver = "crop" -> ALPHA_BBOX_THRESHOLD
      [] rver = "raster" -> 0
      [] rver = "premul" -> ALPHA_EPS
      [] rver = "mean" -> ALPHA_THRESHOLD

\* number of pixels of the cell of dot d whose alpha is above thr
InkAbove(d, thr) ==
    LET pxs == CellPixels(RData, CellBox(RPlan, d.cell))
    IN  Sum([i \in 1..Len(pxs) |-> IF pxs[i][4] > thr THEN 1 ELSE 0])

\* C16: the pixels counted as ink, and the pixels added to the colour sums,
\* are exactly those whose alpha is strictly above the threshold: alpha =
\* threshold is background, alpha = threshold + 1 is ink. (Both tests are
\* thresholds on alpha, so equal counts mean equal sets.)
C16_InkStrictlyAboveThreshold ==
    rver \in {"dtf", "crop", "mean"}
    => \A i \in 1..Len(shapes) :
          /\ shapes[i].used = InkAbove(shapes[i], Threshold)
          /\ rver # "mean" => shapes[i].real = InkAbove(shapes[i], Threshold)

\* the raster img with the colour of every pixel of alpha <= thr inverted
Repaint(img, thr) ==
    [img EXCEPT !.px = [i \in DOMAIN img.px |->
        LET q == img.px[i]
        IN  IF q[4] <= thr THEN <<255 - q[1], 255 - q[2], 255 - q[3], q[4]>> ELSE q]]

\* what the claim observes of one iteration of the cell loop
Seen(d) == IF d.dot THEN <<TRUE, d.fill, d.radius>> ELSE <<FALSE>>

\* C17: in every renderer and mode the colours of the pixels whose alpha is
\* at or below the threshold are ignored: a call on the same raster with
\* those pixels repainted yields, cell by cell, the same presence, fill and
\* radius of the dot.
C17_BackgroundColourIgnored ==
    ( rpc = "encode" )
    => LET img2 == Repaint(rin.img, Threshold)
           plan2 == PlanFor(rver, img2, rin.p)
           data2 == DataFor(rver, img2, plan2)
       IN  /\ plan2 = RPlan
           /\ \A idx \in 0..(RPlan.cellCount - 1) :
                Seen(DotFor(rver, data2, rin.p, plan2, idx))
                  = Seen(DotFor(rver, RData, rin.p, RPlan, idx))

----------------------------------------------------------------------------
(* Divisors of the colour averages *)

\* C18: no colour average is computed with a zero divisor: every division
\* the cell loop has performed had a strictly positive divisor (aSum,
\* realCount or count), and no emitted dot comes from a cell whose divisor
\* is zero, on every raster, fully transparent ones and partial edge cells
\* included.
C18_NoZeroDivisor ==
    /\ \A i \in 1..Len(divs) : divs[i] > 0
    /\ \A i \in 1..Len(shapes) : shapes[i].den > 0
    /\ Len(divs) <= rcell

\* the dtfSafe renderer without coverage floor has finished a raster with
\* two cells: the partial cell at the edge was skipped for lack of ink
\* before the division, the other was averaged
C18_Witness ==
    /\ rver = "dtf" /\ rin.p.dtfSafe /\ rin.p.minCoverage = 0
    /\ rpc = "done"
    /\ rout.cellCount = 2
    /\ Len(divs) = 1

----------------------------------------------------------------------------
(* The loops over the grid, server.js:228-234, 743-749 and 1290-1296,
   part_000:160-166, part_001:101-106. Only the dimensions matter: rcell
   holds the two loop variables, shapes the cells visited so far. *)

GridWidths == 1..13
GridHeights == 1..9

\* server.js:743-761: the loops over row and col; the pixels of the cell are
\* read for y in y0..y1-1 and x in x0..x1-1
GridVisit ==
    /\ rver # "mean"
    /\ rpc = "cells"
    /\ LET row == rcell[1]
           col == rcell[2]
       IN  /\ shapes' = Append(shapes, CellBox(SizePlan, row * SizePlan.cols + col))
           /\ IF col + 1 < SizePlan.cols
              THEN rcell' = <<row, col + 1>> /\ rpc' = "cells"
              ELSE IF row + 1 < SizePlan.rows
              THEN rcell' = <<row + 1, 0>> /\ rpc' = "cells"
              ELSE rcell' = rcell /\ rpc' = "done"
    /\ UNCHANGED <<rver, rin, divs, rout>>
    /\ UNCHANGED jobVars

\* part_001:101-106: the loops step y and x by cs while they are below h
\* and w; the pixels are read for yy in y..min(y+cs,h)-1 and xx in
\* x..min(x+cs,w)-1
GridVisit_mean ==
    /\ rver = "mean"
    /\ rpc = "cells"
    /\ LET y == rcell[1]
           x == rcell[2]
           cs == SizePlan.cs
       IN  /\ shapes' = Append(shapes, [x0 |-> x, x1 |-> Min(x + cs, SizePlan.w),
                                        y0 |-> y, y1 |-> Min(y + cs, SizePlan.h)])
           /\ IF x + cs < SizePlan.w
              THEN rcell' = <<y, x + cs>> /\ rpc' = "cells"
              ELSE IF y + cs < SizePlan.h
              THEN rcell' = <<y + cs, 0>> /\ rpc' = "cells"
              ELSE rcell' = rcell /\ rpc' = "done"
    /\ UNCHANGED <<rver, rin, divs, rout>>
    /\ UNCHANGED jobVars

\* rasters of every small size, at least 1 x 1, with a cell size below and
\* one inside every clamping range
InitGrid ==
    /\ JobsIdle
    /\ rver \in SizeVersions
    /\ rin \in [img : [w : GridWidths, h : GridHeights],
                p : [cellSize : {3, 7}, maxWidth : {2000}]]
    /\ rpc = "cells"
    /\ rcell = <<0, 0>>
    /\ shapes = <<>>
    /\ divs = <<>>
    /\ rout = <<>>

NextGrid == GridVisit \/ GridVisit_mean

SpecGrid == InitGrid /\ [][NextGrid]_vars

\* the pixels a visited cell reads
BoxPixels(box) == (box.x0 .. (box.x1 - 1)) \X (box.y0 .. (box.y1 - 1))

----------------------------------------------------------------------------
(* The cell ceiling *)

\* the safety ceiling on the estimated cell count (server.js:37 and 602);
\* the third version, part_000 and part_001 define none, the larger of the
\* two stands for theirs
CellCeiling == IF rver = "crop" THEN MAX_CELLS_ESTIMATE_crop ELSE MAX_CELLS_ESTIMATE

\* C20: in every renderer the raw pixels are extracted and the first cell is
\* processed only when the estimated cell count ceil(w/cs) * ceil(h/cs) is
\* at most the safety ceiling, so a call never processes more cells than
\* the ceiling.
C20_CellCountBelowCeiling ==
    ( rpc \in {"resized", "done"} /\ SizePlan.throw = "" )
    => SizePlan.cellCount <= CellCeiling

----------------------------------------------------------------------------
(* Order of the stages of one render *)

----------------------------------------------------------------------------
(* Locality of a cell's dot *)

\* do the raw buffers a and b hold the same samples inside box?
SameInside(a, b, box) ==
    \A x \in box.x0..(box.x1 - 1), y \in box.y0..(box.y1 - 1) :
        PixelAt(a, x, y) = PixelAt(b, x, y)

\* what the caller can see of one iteration: nothing, or the pushed shape
Descriptor(d) == IF d.dot THEN d ELSE NoDot

\* the descriptor the running call produced for cell idx
Emitted(idx) ==
    IF \E i \in 1..Len(shapes) : shapes[i].cell = idx
    THEN shapes[CHOOSE i \in 1..Len(shapes) : shapes[i].cell = idx]
    ELSE NoDot

\* the rasters the rendered one is compared with: those whose first run is
\* five samples long (for part_000 those with ink of one colour)
OtherRasters ==
    {img \in {SplitImage(MaxW, 1, 5, a, b) : a \in CellPalette, b \in CellPalette} :
        rver = "premul" => Cardinality(Inks(img)) <= 1}

\* C22: the dot descriptor of a cell (emitted or not, centre, radius, extents,
\* fill, opacity) is a function of the samples inside the cell and of the
\* request parameters: every raster of the same size that agrees with the
\* rendered one inside a cell gets the same descriptor for that cell, and the
\* shapes of a render are exactly the per-cell descriptors, whatever the
\* order in which the cells are taken.
C22_CellLocal ==
    rpc = "encode" =>
      /\ {shapes[i] : i \in 1..Len(shapes)} =
           {d \in {DotFor(rver, RData, rin.p, RPlan, idx) : idx \in 0..(RPlan.cellCount - 1)} :
                d.dot}
      /\ \A img2 \in OtherRasters :
           LET plan2 == PlanFor(rver, img2, rin.p)
               data2 == DataFor(rver, img2, plan2)
           IN  ( plan2.throw = "" /\ plan2.w = RPlan.w /\ plan2.h = RPlan.h )
               => \A idx \in 0..(RPlan.cellCount - 1) :
                     SameInside(RData, data2, CellBox(RPlan, idx))
                     => Descriptor(DotFor(rver, data2, rin.p, plan2, idx)) = Emitted(idx)

\* both cells of a dtfSafe render got a dot, and the two dots differ in
\* fill and radius because the cells hold different samples
C22_Witness ==
    /\ rpc = "encode"
    /\ rver = "dtf"
    /\ Len(shapes) = 2
    /\ shapes[1].fill # shapes[2].fill
    /\ shapes[1].radius # shapes[2].radius

----------------------------------------------------------------------------
(* Fill opacity *)

\* C23: every emitted dot has a fill opacity in [0, 1]; in the dtfSafe
\* renderer the opacity is 1 when dtfSafe is set and otherwise equals the
\* coverage of the cell, the number of ink pixels (counted by the loop, or
\* counted as the pixels above the alpha threshold) over the number of
\* pixels of the cell.
C23_OpacityIsCoverage ==
    rver \in {"dtf", "crop"}
    => \A i \in 1..Len(shapes) :
          LET d == shapes[i]
          IN  /\ d.opacity >= 0 /\ d.opacity <= One
              /\ ( rver = "dtf" /\ rin.p.dtfSafe ) => d.opacity = One
              /\ ( rver = "dtf" /\ ~rin.p.dtfSafe )
                 => \/ d.opacity = RoundDiv(d.real * One, d.count)
                    \/ d.opacity = RoundDiv(InkAbove(d, Threshold) * One, d.count)

----------------------------------------------------------------------------
(* Geometry of the three shapes *)

\* half extents of the drawn shape d in fixed point: the third version
\* keeps them as numbers, the others write them with two decimals
HalfX(d) == IF "rx" \in DOMAIN d THEN d.rx ELSE d.rx100 * (One \div 100)
HalfY(d) == IF "ry" \in DOMAIN d THEN d.ry ELSE d.ry100 * (One \div 100)

\* the value v as the shape carries it: as it is in the third version,
\* rounded to two decimals in the others
Carried(d, v) == IF "rx" \in DOMAIN d THEN v ELSE ToFixed2(v) * (One \div 100)

\* C24: a circle of radius r has both half extents r, an ellipse has
\* rx = 1.2 r and ry = 0.85 r, a square has half side r about the cell
\* centre; in the third version a square paints no pixel that lies wholly
\* outside [cx - r, cx + r] x [cy - r, cy + r].
C24_ShapeGeometry ==
    \A i \in 1..Len(shapes) :
        LET d == shapes[i]
        IN  /\ d.shape \in {"circle", "square"}
                 => HalfX(d) = Carried(d, d.radius) /\ HalfY(d) = Carried(d, d.radius)
            /\ d.shape = "ellipse"
                 => /\ HalfX(d) = Carried(d, (d.radius * 120) \div 100)
                    /\ HalfY(d) = Carried(d, (d.radius * 85) \div 100)
            /\ ( rver = "raster" /\ d.shape = "square" )
                 => \A x \in 0..(RPlan.w - 1), y \in 0..(RPlan.h - 1) :
                       Hits(d, x, y, RPlan.w, RPlan.h)
                       => /\ 100 * (x + 1) > d.cx2 * 50 - d.radius \div 100
                          /\ 100 * x < d.cx2 * 50 + d.radius \div 100
                          /\ 100 * (y + 1) > d.cy2 * 50 - d.radius \div 100
                          /\ 100 * y < d.cy2 * 50 + d.radius \div 100

----------------------------------------------------------------------------
(* The canvas of the direct raster renderer *)

\* does pixel (x, y) share area with the extent of shape d, the rectangle
\* [cx - rx, cx + rx] x [cy - ry, cy + ry]? Coordinates in hundredths.
Overlaps(d, x, y) ==
    /\ 100 * (x + 1) > d.cx2 * 50 - d.rx \div 100
    /\ 100 * x < d.cx2 * 50 + d.rx \div 100
    /\ 100 * (y + 1) > d.cy2 * 50 - d.ry \div 100
    /\ 100 * y < d.cy2 * 50 + d.ry \div 100

\* the shapes drawn before the last one
Earlier == IF shapes = <<>> THEN <<>> ELSE SubSeq(shapes, 1, Len(shapes) - 1)

\* C25: in the direct raster renderer the canvas is transparent before the
\* first dot; drawing a dot of opacity a turns a pixel's alpha p into
\* a + p (1 - a) (to the byte), so alpha never decreases and stays in
\* 0..255; only pixels of the w x h canvas are written; and a pixel that no
\* emitted dot covers keeps alpha 0.
C25_CanvasSourceOver ==
    ( rver = "raster" /\ rpc \in {"cells", "encode", "done"} /\ RPlan.throw = "" )
    => LET w == RPlan.w
           h == RPlan.h
           canvas == CanvasAlpha(shapes, w, h)
           before == CanvasAlpha(Earlier, w, h)
       IN  /\ Len(canvas) = w * h
           /\ shapes = <<>> => \A i \in 1..(w * h) : canvas[i] = 0
           /\ \A i \in 1..(w * h) :
                LET x == (i - 1) % w
                    y == (i - 1) \div w
                IN  /\ canvas[i] \in 0..255
                    /\ canvas[i] >= before[i]
                    /\ ( shapes # <<>> /\ Hits(shapes[Len(shapes)], x, y, w, h) )
                         => Abs(canvas[i] * One
                                  - ( 255 * shapes[Len(shapes)].opacity
                                      + before[i] * (One - shapes[Len(shapes)].opacity) ))
                              <= One
                    /\ ( \A k \in 1..Len(shapes) : ~Overlaps(shapes[k], x, y) )
                         => canvas[i] = 0

----------------------------------------------------------------------------
(* Responses of the handler *)

\* C27: a request that has left the handler has received exactly one
\* response and a request still inside it has received none; when the catch
\* clause ran, its answer is that one response, so the catch clause is never
\* entered after the try block has answered.
C27_ExactlyOneResponse ==
    \A r \in Requests :
        /\ pc[r] = "done" => Len(resp[r]) = 1
        /\ pc[r] # "done" => resp[r] = <<>>
        /\ Len(caught[r]) <= 1
        /\ caught[r] # <<>> => resp[r] = <<catchResponse(caught[r][1])>>

\* one request was answered from the try block (success), another from the
\* catch clause
C27_Witness ==
    \E r, q \in Requests :
        /\ pc[r] = "done" /\ resp[r][1].status = 200 /\ caught[r] = <<>>
        /\ pc[q] = "done" /\ resp[q][1].status = 500 /\ caught[q] # <<>>

----------------------------------------------------------------------------
(* Validation and the admission gate *)

\* C28: a request whose body fails validation is answered 400 BAD_REQUEST in
\* the step in which it arrives, whatever the value of ACTIVE_JOBS, also when
\* every slot is taken; the step leaves ACTIVE_JOBS as it was and the request
\* is never counted.
C28_ValidationBeforeGate ==
    [][ \A r \in Requests :
          ( pc[r] = "idle" /\ pc'[r] # "idle" /\ ~ProcessRequest(req'[r]) )
          => /\ pc'[r] = "done"
             /\ resp'[r] = <<errJson(400, "BAD_REQUEST", {})>>
             /\ ACTIVE_JOBS' = ACTIVE_JOBS
             /\ incs'[r] = 0 /\ decs'[r] = 0
             /\ work'[r] = {} ]_vars

\* a request with an invalid body was answered 400 while another request
\* holds the only slot
C28_Witness ==
    /\ ACTIVE_JOBS = MAX_CONCURRENT_JOBS
    /\ \E r, q \in Requests :
          /\ pc[q] \in InFlight
          /\ pc[r] = "done"
          /\ ~ProcessRequest(req[r])
          /\ resp[r] = <<errJson(400, "BAD_REQUEST", {})>>

----------------------------------------------------------------------------
(* HeadObject is optional *)

\* C29: the step that follows HeadObject never enters the catch clause: it
\* either goes on to GetObject or, when HeadObject reported a length above
\* the limit, answers 413; so a rejected HeadObject does not end the
\* request. The limit on the byte size is applied to the downloaded buffer
\* all the same: a request whose object is larger than MAX_UPLOAD_BYTES and
\* whose download succeeded is answered 413 TOO_LARGE, and
\* makeColorHalftonePng is never called with an input larger than
\* MAX_UPLOAD_BYTES.
C29_HeadObjectOptional ==
    [][ \A r \in Requests :
          /\ ( pc[r] = "head" /\ pc'[r] # "head" )
               => /\ caught'[r] = caught[r]
                  /\ \/ pc'[r] = "get" /\ resp'[r] = <<>> /\ "GetObject" \in work'[r]
                     \/ /\ req[r].bytes > MAX_UPLOAD_BYTES
                        /\ resp'[r][1].status = 413 /\ resp'[r][1].code = "TOO_LARGE"
          /\ "HeadObject warning" \in work'[r] => "GetObject" \in work'[r]
          /\ ( /\ pc[r] = "stream" /\ pc'[r] = "done"
                /\ caught'[r] = <<>>
                /\ req[r].bytes > MAX_UPLOAD_BYTES )
               => resp'[r][1].status = 413 /\ resp'[r][1].code = "TOO_LARGE"
          /\ ( pc[r] = "stream" /\ req[r].bytes > MAX_UPLOAD_BYTES ) => pc'[r] \in {"stream", "done"}
          /\ "makeColorHalftonePng" \in work'[r] => req'[r].bytes <= MAX_UPLOAD_BYTES ]_vars

\* HeadObject failed for an object above the limit, the object was
\* downloaded and the request was answered 413
C29_Witness ==
    \E r \in Requests :
        /\ rver = "dtf"
        /\ pc[r] = "done"
        /\ "HeadObject warning" \in work[r]
        /\ "streamToBuffer" \in work[r]
        /\ req[r].bytes > MAX_UPLOAD_BYTES
        /\ resp[r][1].code = "TOO_LARGE"

----------------------------------------------------------------------------
(* Release of the admission slot *)

\* A client whose first request was answered 429 BUSY sends it once more;
\* resp keeps the answers the client has received so far.
Retry(r) ==
    /\ pc[r] = "done"
    /\ resp[r] = <<tooBusyResponse>>
    /\ pc' = [pc EXCEPT ![r] = "idle"]
    /\ UNCHANGED <<ACTIVE_JOBS, req, resp, work, incs, decs, caught>>
    /\ UNCHANGED renderVars

\* the continuation of the handler of request r after the await it is
\* suspended at
Resume(r) ==
    \/ HeadDone(r)
    \/ GetDone(r)
    \/ StreamDone(r)
    \/ MetaDone(r)
    \/ RenderDone(r)
    \/ PutDone(r)
    \/ SignDone(r)

\* the requests the clients send here: a valid body, an object within and
\* above the byte limit
LiveRequests ==
    [cellSize : {MIN_CELL}, maxWidth : MaxWidths,
     bytes : {1000, MAX_UPLOAD_BYTES + 1}, inW : ObjectWidths, inH : {100}]

NextLive ==
    \E r \in Requests :
        \/ Arrive(r) /\ req'[r] \in LiveRequests
        \/ Resume(r)
        \/ Retry(r)

\* Every awaited operation resolves or rejects and the event loop then runs
\* the handler's continuation; clients arrive and retry as they please.
SpecLive == Init /\ [][NextLive]_vars /\ \A r \in Requests : WF_vars(Resume(r))

\* C26: a request in flight holds one slot (one increment of ACTIVE_JOBS not
\* yet undone), a request not in flight holds none, and every request is
\* again and again not in flight: an admitted request eventually leaves the
\* handler with its slot released. Whenever no request is in flight
\* ACTIVE_JOBS is 0, and a valid request that arrives, first or retried,
\* while no request is in flight is admitted.
C26_SlotReleased ==
    /\ \A r \in Requests : []<>( pc[r] \notin InFlight )
    /\ []( \A r \in Requests :
             incs[r] = decs[r] + ( IF pc[r] \in InFlight THEN 1 ELSE 0 ) )
    /\ []( ( \A r \in Requests : pc[r] \notin InFlight ) => ACTIVE_JOBS = 0 )
    /\ [][ \A r \in Requests :
            ( /\ pc[r] = "idle" /\ pc'[r] # "idle"
              /\ ProcessRequest(req'[r])
              /\ \A q \in Requests : pc[q] \notin InFlight )
            => pc'[r] = "head" ]_vars

\* a client was answered BUSY, sent the request again and was admitted; its
\* request has ended and no slot is held
C26_Witness ==
    \E r \in Requests :
        /\ Len(resp[r]) = 2
        /\ resp[r][1] = tooBusyResponse
        /\ resp[r][2].status \in {200, 500}
        /\ incs[r] = 1 /\ decs[r] = 1
        /\ ACTIVE_JOBS = 0

----------------------------------------------------------------------------
(* The bounding box of the ink and the crop, server.js:121-189 *)

\* size of the rasters the first version crops here
BoxW == 7
BoxH == 5

\* the BoxW x BoxH raster that holds the sample ink at the positions S and
\* the sample bg elsewhere
InkAt(S, ink, bg) ==
    [w |-> BoxW, h |-> BoxH,
     px |-> [i \in 1..(BoxW * BoxH) |-> IF i \in S THEN ink ELSE bg]]

\* rasters with no, one or two pixels of ink: ink one step above the
\* threshold or opaque, background transparent or at the threshold
BoxImages ==
    {InkAt(S, ink, bg) :
        S \in {{}} \cup {{i, j} : i, j \in 1..(BoxW * BoxH)},
        ink \in {<<0, 0, 0, ALPHA_BBOX_THRESHOLD + 1>>, <<0, 0, 0, 255>>},
        bg \in {<<255, 255, 255, 0>>, <<255, 255, 255, ALPHA_BBOX_THRESHOLD>>}}

InitCrop ==
    /\ JobsIdle
    /\ rver = "crop"
    /\ rin \in [img : BoxImages,
                p : [cellSize : {MIN_CELL_crop}, maxWidth : {2000}, dotShape : {"circle"},
                     strength : {100}]]
    /\ rpc = "start"
    /\ rcell = 0
    /\ shapes = <<>>
    /\ divs = <<>>
    /\ rout = <<>>

SpecCrop == InitCrop /\ [][NextRender]_vars

\* coordinates of the pixels of the input whose alpha exceeds the threshold
InkPixels ==
    {xy \in (0..(rin.img.w - 1)) \X (0..(rin.img.h - 1)) :
        PixelAt(rin.img, xy[1], xy[2])[4] > ALPHA_BBOX_THRESHOLD}

\* C30: findAlphaBBox returns null exactly when no pixel has alpha above the
\* threshold, and the call then throws; otherwise its rectangle contains
\* every such pixel and each of its four edges passes through one, and the
\* crop rectangle obtained by padding satisfies 0 <= left <= right <=
\* width - 1 and 0 <= top <= bottom <= height - 1 and contains every such
\* pixel.
C30_BBoxTight ==
    rpc # "start" =>
      LET bbox == findAlphaBBox(rin.img, ALPHA_BBOX_THRESHOLD)
          left == RPlan.left
          top == RPlan.top
          right == RPlan.left + RPlan.cropW - 1
          bottom == RPlan.top + RPlan.cropH - 1
      IN  /\ bbox = <<>> <=> InkPixels = {}
          /\ RPlan.throw = "fully transparent" <=> InkPixels = {}
          /\ InkPixels # {} =>
               /\ \A xy \in InkPixels :
                     /\ bbox.left <= xy[1] /\ xy[1] <= bbox.right
                     /\ bbox.top <= xy[2] /\ xy[2] <= bbox.bottom
                     /\ left <= xy[1] /\ xy[1] <= right
                     /\ top <= xy[2] /\ xy[2] <= bottom
               /\ \E xy \in InkPixels : xy[1] = bbox.left
               /\ \E xy \in InkPixels : xy[1] = bbox.right
               /\ \E xy \in InkPixels : xy[2] = bbox.top
               /\ \E xy \in InkPixels : xy[2] = bbox.bottom
               /\ 0 <= left /\ left <= right /\ right <= rin.img.w - 1
               /\ 0 <= top /\ top <= bottom /\ bottom <= rin.img.h - 1
               /\ RPlan.cropW >= 1 /\ RPlan.cropH >= 1
               /\ rpc = "done" => rout.croppedFrom = <<left, top, RPlan.cropW, RPlan.cropH>>

\* a raster with two pixels of ink on a background at the threshold was
\* cropped: the padded box lies inside the raster on the left and right and
\* is cut off at its upper edge
C30_Witness ==
    /\ rver = "crop"
    /\ rpc = "done"
    /\ Cardinality(InkPixels) = 2
    /\ PixelAt(rin.img, 0, 0)[4] = ALPHA_BBOX_THRESHOLD
    /\ RPlan.left > 0
    /\ RPlan.left + RPlan.cropW < rin.img.w
    /\ RPlan.top = 0
    /\ RPlan.top + RPlan.cropH < rin.img.h

====
